---- MODULE Spec2Model ----
(***************************************************************************)
(* A state-machine model of the rollback-netcode core of the roguelite:    *)
(* the GGRS request handler (save / load / advance one frame) and the      *)
(* per-frame simulation it drives (players, attacks, traps, monsters).     *)
(*                                                                         *)
(* Lengths are fixed-point: a pixel is PX units, so that every f32 length  *)
(* of the source (2.2, 0.7, 22.5 * 1.1 / 2, ...) is an integer.  An angle  *)
(* is kept as the direction vector it denotes together with the vector's   *)
(* length, so cos = x / n and sin = y / n.                                 *)
(***************************************************************************)
EXTENDS Integers, Sequences, FiniteSets, TLC

\* ---------------------------------------------------------------------
\* Program constants
\* ---------------------------------------------------------------------
PX == 40
TILE_SIZE == 30 * PX
PLAYER_SIZE == 12 * PX
PLAYER_SPEED == (22 * PX) \div 10
NUM_PLAYERS == 2
NUM_FLOORS == 5

\* ---------------------------------------------------------------------
\* Vectors and angles
\* ---------------------------------------------------------------------
Vec(x, y) == [x |-> x, y |-> y]
ZERO == Vec(0, 0)
VAdd(a, b) == Vec(a.x + b.x, a.y + b.y)
VSub(a, b) == Vec(a.x - b.x, a.y - b.y)
Abs(n) == IF n < 0 THEN -n ELSE n
\* a value computed once and named for the expression that uses it (a local
\* variable of the code)
With(v, F(_)) == F(v)
Min(a, b) == IF a <= b THEN a ELSE b
Max(a, b) == IF a >= b THEN a ELSE b
\* f32 division of the source, here truncating toward zero
Div(a, b) == IF a >= 0 THEN a \div b ELSE -((-a) \div b)

RECURSIVE SqrtFrom(_, _)
SqrtFrom(n, r) == IF r * r <= n THEN r ELSE SqrtFrom(n, (r + n \div r) \div 2)
Sqrt(n) == IF n = 0 THEN 0 ELSE SqrtFrom(n, Min(n, 46340))

Signum(n) == IF n > 0 THEN 1 ELSE IF n < 0 THEN -1 ELSE 0
\* the angle of the vector (x, y); the four axis directions are kept as
\* unit vectors so that equal angles are equal values
Angle(x, y) ==
    IF y = 0 THEN [x |-> Signum(x), y |-> 0, n |-> 1]
    ELSE IF x = 0 THEN [x |-> 0, y |-> Signum(y), n |-> 1]
    ELSE [x |-> x, y |-> y, n |-> Sqrt(x * x + y * y)]
EAST == Angle(1, 0)
WEST == Angle(-1, 0)
NORTH == Angle(0, -1)
SOUTH == Angle(0, 1)
\* len * cos(a) and len * sin(a)
MulCos(len, a) == Div(len * a.x, a.n)
MulSin(len, a) == Div(len * a.y, a.n)
\* Vec2::new(angle.cos(), angle.sin()) * len
DirVec(a, len) == Vec(MulCos(len, a), MulSin(len, a))

\* atan2(d.y, d.x); atan2(0, 0) is 0
get_angle(c, e) ==
    LET d == VSub(c, e) IN IF d = ZERO THEN EAST ELSE Angle(d.x, d.y)

\* ---------------------------------------------------------------------
\* math.rs: lines, polygons and the collision tests
\* ---------------------------------------------------------------------
Line(p1, p2) == [point1 |-> p1, point2 |-> p2]

ccw(point1, point2, point3) ==
    LET diff2 == VSub(point2, point1)
        diff3 == VSub(point3, point1)
    IN  diff3.y * diff2.x > diff2.y * diff3.x

\* A test that asks only whether the first line has its ends on the two
\* sides of the second.  The code asks the same of the second line too;
\* the symmetry property below tells the two apart.
intersect_one_sided(line1, line2) ==
    ccw(line1.point1, line2.point1, line2.point2)
      # ccw(line1.point2, line2.point1, line2.point2)

intersect(line1, line2) ==
    /\ ccw(line1.point1, line2.point1, line2.point2)
         # ccw(line1.point2, line2.point1, line2.point2)
    /\ ccw(line1.point1, line1.point2, line2.point1)
         # ccw(line1.point1, line1.point2, line2.point2)

shift(poly, dir) ==
    [center |-> VAdd(poly.center, dir),
     lines |-> [i \in 1..4 |->
                  Line(VAdd(poly.lines[i].point1, dir), VAdd(poly.lines[i].point2, dir))]]

easy_polygon(center, half_size, rotation) ==
    LET xc == MulCos(half_size.x, rotation)
        xs == MulSin(half_size.x, rotation)
        yc == MulCos(half_size.y, rotation)
        ys == MulSin(half_size.y, rotation)
        corner1 == Vec(center.x - xc - ys, center.y - xs + yc)
        corner2 == Vec(center.x + xc - ys, center.y + xs + yc)
        corner3 == Vec(center.x - xc + ys, center.y - xs - yc)
        corner4 == Vec(center.x + xc + ys, center.y + xs - yc)
    IN  [center |-> center,
         lines |-> <<Line(corner1, corner2), Line(corner3, corner4),
                     Line(corner2, corner4), Line(corner1, corner3)>>]

\* true iff some edge of poly1, moved by distance, crosses some edge of poly2
aabb_collision(poly1, poly2, distance) ==
    LET p1 == shift(poly1, distance) IN
    \E i \in 1..4 : \E j \in 1..4 : intersect(p1.lines[i], poly2.lines[j])

\* the per-axis test; each shifted copy is shifted by distance once more
\* inside aabb_collision
aabb_collision_dir(aabb1, aabb2, distance) ==
    [x |-> aabb_collision(shift(aabb1, Vec(distance.x, 0)), aabb2, distance),
     y |-> aabb_collision(shift(aabb1, Vec(0, distance.y)), aabb2, distance)]

\* ---------------------------------------------------------------------
\* map.rs: the floor.  The generated layout is fixed here to two rooms that
\* share a wall with one door in it; rows 0 and MapH-1 and columns 0, 4 and
\* 8 are walls.  Vec<Object> is kept as the layout (what FloorInfo::new
\* wrote and nothing changes afterwards: pos, is_floor, door, trap type)
\* plus the fields the frame changes (open doors, triggered traps, effects).
\* ---------------------------------------------------------------------
MapW == 9
MapH == 5
NONE == "None"

Rooms ==
    << [top_left |-> Vec(0, 0), bottom_right |-> Vec(4, 4)],
       [top_left |-> Vec(4, 0), bottom_right |-> Vec(8, 4)] >>
DoorPos == {Vec(4, 2)}
\* the one trap of the floor, in front of the door
TrapAt(pos) == IF pos = Vec(3, 2) THEN "Teleport" ELSE NONE

inside_room(room, pos) ==
    /\ pos.x > room.top_left.x /\ pos.y > room.top_left.y
    /\ pos.x < room.bottom_right.x /\ pos.y < room.bottom_right.y
center(room) ==
    Vec((room.top_left.x + room.bottom_right.x) \div 2,
        (room.top_left.y + room.bottom_right.y) \div 2)

TileIdx == 0 .. (MapW * MapH - 1)
TilePos(i) == Vec(i % MapW, i \div MapW)
\* what FloorInfo::new leaves in objects[i]: a room's floor inside a room,
\* a wall (with the door where the hallway crosses it) anywhere else
Layout ==
    [i \in TileIdx |->
        LET pos == TilePos(i)
            in_room == \E r \in 1..Len(Rooms) : inside_room(Rooms[r], pos)
        IN  [pos |-> pos,
             is_floor |-> in_room,
             has_door |-> pos \in DoorPos,
             trap_type |-> IF in_room THEN TrapAt(pos) ELSE NONE]]
DoorTiles == {i \in TileIdx : Layout[i].has_door}
TrapTiles == {i \in TileIdx : Layout[i].trap_type # NONE}

\* FloorInfo.spawn and FloorInfo.exit as FloorInfo::new computes them from
\* the chosen rooms
spawn == Vec(center(Rooms[1]).x * TILE_SIZE, center(Rooms[1]).y * TILE_SIZE)
exit_pos == center(Rooms[2])

\* (pos.x + pos.y * MAP_WIDTH_TILES) as usize, looked up with Vec::get: a
\* negative index is out of range, an x beyond the row wraps into the next
get_object_from_pos(pos) ==
    LET index == pos.x + pos.y * MapW IN
    IF index \in TileIdx THEN index ELSE -1

is_collidable(floor, i) ==
    IF Layout[i].is_floor THEN FALSE
    ELSE IF Layout[i].has_door THEN i \notin floor.open_doors
    ELSE TRUE

HALF_TILE_SIZE == Vec(TILE_SIZE \div 2, TILE_SIZE \div 2)
tile_polygon(pos) ==
    easy_polygon(VAdd(Vec(pos.x * TILE_SIZE, pos.y * TILE_SIZE), HALF_TILE_SIZE),
                 HALF_TILE_SIZE, EAST)
ObjPolygon == [i \in TileIdx |-> tile_polygon(Layout[i].pos)]

\* The objects a shape can reach when it moves by at most reach on each
\* axis.  Two edges cross only where both are, so an object whose tile lies
\* outside the box around the moved shape crosses none of its edges; the
\* tests below run over the objects within reach and give what a run over
\* every object gives.
Corners(poly) == {poly.lines[k].point1 : k \in 1..4} \cup {poly.lines[k].point2 : k \in 1..4}
WithinReach(poly, reach) ==
    LET xs == {c.x : c \in Corners(poly)}
        ys == {c.y : c \in Corners(poly)}
        lo_x == ((CHOOSE v \in xs : \A u \in xs : v <= u) - reach.x) \div TILE_SIZE - 1
        hi_x == ((CHOOSE v \in xs : \A u \in xs : v >= u) + reach.x) \div TILE_SIZE + 1
        lo_y == ((CHOOSE v \in ys : \A u \in ys : v <= u) - reach.y) \div TILE_SIZE - 1
        hi_y == ((CHOOSE v \in ys : \A u \in ys : v >= u) + reach.y) \div TILE_SIZE + 1
    IN  {i \in TileIdx : /\ Layout[i].pos.x >= lo_x /\ Layout[i].pos.x <= hi_x
                         /\ Layout[i].pos.y >= lo_y /\ Layout[i].pos.y <= hi_y}

\* Floor::collision_obj / collision: the first collidable object the shape
\* hits after moving by distance
collision_obj(floor, aabb, distance) ==
    LET hit == {i \in WithinReach(aabb, Vec(Abs(distance.x), Abs(distance.y))) :
                  is_collidable(floor, i) /\ aabb_collision(aabb, ObjPolygon[i], distance)}
    IN  IF hit = {} THEN -1 ELSE CHOOSE i \in hit : \A j \in hit : i <= j
collision(floor, aabb, distance) == collision_obj(floor, aabb, distance) # -1

\* the fold of aabb_collision_dir over the collidable objects
collision_dir(floor, aabb, distance) ==
    LET near == WithinReach(aabb, Vec(2 * Abs(distance.x), 2 * Abs(distance.y)))
        infos == {aabb_collision_dir(aabb, ObjPolygon[i], distance) :
                     i \in {j \in near : is_collidable(floor, j)}}
    IN  [x |-> \E c \in infos : c.x, y |-> \E c \in infos : c.y]

doors(floor) == DoorTiles
untriggered_traps(floor) == TrapTiles \ floor.triggered

\* (center / TILE_SIZE).floor()
pos_to_tile(poly) ==
    Vec(poly.center.x \div TILE_SIZE, poly.center.y \div TILE_SIZE)

\* ---------------------------------------------------------------------
\* macroquad::rand: one process-wide generator, seeded once in main and
\* shared by every caller.  Its state is the variable rng below; a draw
\* returns the current value and steps the generator.
\* ---------------------------------------------------------------------
RngMod == 8
rand_next(r) == (r * 5 + 3) % RngMod
\* rand::gen_range(low, high): low + (high - low) * (rand / 2^32), truncated
gen_range(low, high, r) == low + ((high - low) * r) \div RngMod
\* ChooseRandom::choose on a non-empty Vec
choose(v, r) == v[gen_range(0, Len(v), r) + 1]

\* the elements of a set of integers in increasing order (Vec iteration order)
RECURSIVE SortedSeq(_)
SortedSeq(S) ==
    IF S = {} THEN <<>>
    ELSE LET m == CHOOSE x \in S : \A y \in S : x <= y
         IN  <<m>> \o SortedSeq(S \ {m})

\* ---------------------------------------------------------------------
\* math.rs / map.rs: line of sight
\* ---------------------------------------------------------------------
RECURSIVE CircleFrom(_, _, _)
CircleFrom(c, d, o2) ==
    IF d.y > d.x THEN <<>>
    ELSE LET pts == << Vec(c.x + d.x, c.y + d.y), Vec(c.x + d.y, c.y + d.x),
                       Vec(c.x - d.x, c.y + d.y), Vec(c.x - d.y, c.y + d.x),
                       Vec(c.x - d.x, c.y - d.y), Vec(c.x - d.y, c.y - d.x),
                       Vec(c.x + d.x, c.y - d.y), Vec(c.x + d.y, c.y - d.x) >>
             y1 == d.y + 1
         IN  IF o2 <= 0
             THEN pts \o CircleFrom(c, Vec(d.x, y1), o2 + 2 * y1 + 1)
             ELSE pts \o CircleFrom(c, Vec(d.x - 1, y1), o2 + 2 * (y1 - (d.x - 1)) + 1)
points_on_circumference(c, radius) == CircleFrom(c, Vec(radius, 0), 1 - radius)

RECURSIVE LineFrom(_, _, _, _, _)
LineFrom(pos, n, err, d2, inc) ==
    IF n <= 0 THEN <<>>
    ELSE IF err > 0
         THEN <<pos>> \o LineFrom(Vec(pos.x + inc.x, pos.y), n - 1, err - d2.y, d2, inc)
         ELSE <<pos>> \o LineFrom(Vec(pos.x, pos.y + inc.y), n - 1, err + d2.x, d2, inc)
points_on_line(pos1, pos2) ==
    LET d == Vec(Abs(pos2.x - pos1.x), Abs(pos2.y - pos1.y))
        inc == Vec(-Signum(pos1.x - pos2.x), -Signum(pos1.y - pos2.y))
    IN  LineFrom(pos1, 1 + d.x + d.y, d.x - d.y, Vec(2 * d.x, 2 * d.y), inc)

\* the objects of one ray up to and including the first collidable one
RECURSIVE RayObjects(_, _, _)
RayObjects(floor, ray, k) ==
    IF k > Len(ray) THEN {}
    ELSE LET idx == get_object_from_pos(ray[k]) IN
         IF idx = -1 THEN RayObjects(floor, ray, k + 1)
         ELSE IF is_collidable(floor, idx) THEN {idx}
         ELSE {idx} \cup RayObjects(floor, ray, k + 1)

\* the rays cast from a tile to the circle of the given radius around it
Rays(center_tile, size) ==
    LET edges == points_on_circumference(center_tile, size)
    IN  {points_on_line(center_tile, edges[k]) : k \in 1..Len(edges)}

\* Floor::visible_objects, as the set of indices of the objects it returns
visible_objects(floor, poly, size) ==
    UNION {RayObjects(floor, ray, 1) : ray \in Rays(pos_to_tile(poly), size)}

\* ---------------------------------------------------------------------
\* map.rs: path finding (pathfinding::astar over the tile grid)
\* ---------------------------------------------------------------------
\* Neighbours that are taken whatever stands on them.  The code drops a
\* collidable tile unless it is a door and doors are ignored; the property
\* of the walled-in goal below tells the two apart.
find_viable_neighbors_through_walls(floor, pos, visible, only_visible, ignore_door_collision) ==
    SelectSeq(<< Vec(pos.x - 1, pos.y), Vec(pos.x + 1, pos.y),
                 Vec(pos.x, pos.y - 1), Vec(pos.x, pos.y + 1) >>,
              LAMBDA p : ~(p.x < 0 \/ p.y < 0 \/ p.x > MapW \/ p.y > MapH))

\* find_viable_neighbors with the four diagonal tiles among the candidates
find_viable_neighbors_with_diagonals(floor, pos, visible, only_visible, ignore_door_collision) ==
    SelectSeq(<< Vec(pos.x - 1, pos.y), Vec(pos.x + 1, pos.y),
                 Vec(pos.x, pos.y - 1), Vec(pos.x, pos.y + 1),
                 Vec(pos.x - 1, pos.y - 1), Vec(pos.x + 1, pos.y + 1),
                 Vec(pos.x + 1, pos.y - 1), Vec(pos.x - 1, pos.y + 1) >>,
              LAMBDA p : /\ ~(p.x < 0 \/ p.y < 0 \/ p.x > MapW \/ p.y > MapH)
                         /\ only_visible => \E v \in visible : Layout[v].pos = p
                         /\ \/ get_object_from_pos(p) = -1
                            \/ ~is_collidable(floor, get_object_from_pos(p))
                            \/ ignore_door_collision /\ Layout[get_object_from_pos(p)].has_door)

find_viable_neighbors(floor, pos, visible, only_visible, ignore_door_collision) ==
    LET potential_neighbors ==
            << Vec(pos.x - 1, pos.y), Vec(pos.x + 1, pos.y),
               Vec(pos.x, pos.y - 1), Vec(pos.x, pos.y + 1) >>
        in_bounds(p) ==
            IF p.x < 0 \/ p.y < 0 \/ p.x > MapW \/ p.y > MapH THEN FALSE
            ELSE IF only_visible
                 THEN \E v \in visible : Layout[v].pos = p
                 ELSE TRUE
        passable(p) ==
            LET idx == get_object_from_pos(p) IN
            IF idx = -1 THEN TRUE
            ELSE IF is_collidable(floor, idx)
                 THEN ignore_door_collision /\ Layout[idx].has_door
                 ELSE TRUE
    IN  SelectSeq(potential_neighbors, LAMBDA p : in_bounds(p) /\ passable(p))

distance_squared(pos1, pos2) ==
    (pos2.x - pos1.x) * (pos2.x - pos1.x) + (pos2.y - pos1.y) * (pos2.y - pos1.y)

\* The tiles after the start up to a node.  astar returns the start as the
\* first tile of the path; the property of the straight path below tells
\* the two apart.
RECURSIVE PathAfterStart(_, _)
PathAfterStart(parents, node) ==
    IF parents[node].parent = node THEN <<>>
    ELSE Append(PathAfterStart(parents, parents[node].parent), node)

\* the tiles from the start to a node, following the parent links
RECURSIVE PathTo(_, _)
PathTo(parents, node) ==
    IF parents[node].parent = node THEN <<node>>
    ELSE Append(PathTo(parents, parents[node].parent), node)

\* astar: to_see is the heap of (estimated_cost, cost, node), popped by
\* smallest estimate and, among equals, largest cost; parents maps every
\* node seen so far to its best known parent and cost.  Entries equal in
\* both keys are taken in the order of their tile coordinates.
RECURSIVE Relax(_, _, _, _, _, _)
Relax(succ, k, node, cost, goal, st) ==
    IF k > Len(succ) THEN st
    ELSE LET n == succ[k]
             new_cost == cost + 1
             better == n \notin DOMAIN st.parents \/ st.parents[n].cost > new_cost
         IN  IF better
             THEN Relax(succ, k + 1, node, cost, goal,
                        [parents |-> [m \in DOMAIN st.parents \cup {n} |->
                                        IF m = n THEN [parent |-> node, cost |-> new_cost]
                                        ELSE st.parents[m]],
                         to_see |-> st.to_see \cup
                             {[est |-> new_cost + distance_squared(n, goal),
                               cost |-> new_cost, node |-> n]}])
             ELSE Relax(succ, k + 1, node, cost, goal, st)

RECURSIVE AstarLoop(_, _, _, _, _, _)
AstarLoop(floor, goal, visible, only_visible, ignore_door_collision, st) ==
    IF st.to_see = {} THEN <<>>
    ELSE LET Before(a, b) ==
                 \/ a.est < b.est
                 \/ a.est = b.est /\ a.cost > b.cost
                 \/ a.est = b.est /\ a.cost = b.cost /\ a.node.y < b.node.y
                 \/ a.est = b.est /\ a.cost = b.cost /\ a.node.y = b.node.y
                      /\ a.node.x <= b.node.x
             top == CHOOSE a \in st.to_see : \A b \in st.to_see : Before(a, b)
             rest == [st EXCEPT !.to_see = st.to_see \ {top}]
         IN  IF top.node = goal THEN PathTo(st.parents, top.node)
             ELSE IF top.cost > st.parents[top.node].cost
             THEN AstarLoop(floor, goal, visible, only_visible, ignore_door_collision, rest)
             ELSE AstarLoop(floor, goal, visible, only_visible, ignore_door_collision,
                      Relax(find_viable_neighbors(floor, top.node, visible, only_visible,
                                                  ignore_door_collision),
                            1, top.node, top.cost, goal, rest))

\* Floor::find_path / inner_find_path: the way-points (tile corners, the
\* start tile first) or <<>> for None
find_path(floor, start, goal, only_visible, ignore_door_collision) ==
    LET start_tile_pos == pos_to_tile(start)
        goal_tile_pos == pos_to_tile(goal)
        visible == IF only_visible THEN visible_objects(floor, start, 12) ELSE {}
        path == AstarLoop(floor, goal_tile_pos, visible, only_visible, ignore_door_collision,
                    [parents |-> [m \in {start_tile_pos} |->
                                     [parent |-> start_tile_pos, cost |-> 0]],
                     to_see |-> {[est |-> distance_squared(start_tile_pos, goal_tile_pos),
                                  cost |-> 0, node |-> start_tile_pos]}])
    IN  [k \in 1..Len(path) |-> Vec(path[k].x * TILE_SIZE, path[k].y * TILE_SIZE)]

\* ---------------------------------------------------------------------
\* player.rs
\* ---------------------------------------------------------------------
PointInfo(points, regen_rate) ==
    [points |-> points, regen_rate |-> regen_rate, max_points |-> points,
     time_til_regen |-> 0]

\* Player::new.  speed, willpower, gold and the spell list are not fields
\* here: nothing the frame runs changes them (speed is PLAYER_SPEED and
\* spells[0] of a Wizard is MagicMissile).
NewPlayer(class, pos) ==
    [class |-> class,
     pos |-> pos,
     angle |-> EAST,
     hp |-> IF class = "Warrior" THEN PointInfo(30, 15 * 60) ELSE PointInfo(20, 15 * 60),
     mp |-> IF class = "Wizard" THEN PointInfo(6, 7 * 60)
            ELSE IF class = "Warrior" THEN PointInfo(3, 10 * 60)
            ELSE PointInfo(4, 9 * 60),
     invincibility_frames |-> 0,
     primary_cooldown |-> 0,
     secondary_cooldown |-> 0,
     xp |-> 0,
     level |-> 0,
     stack_count |-> IF class = "Rogue" THEN 5 ELSE 0,
     enchantments |-> {}]

primary_item(player) ==
    IF player.class = "Warrior" THEN "ShortSword"
    ELSE IF player.class = "Wizard" THEN "WizardGlove" ELSE "ThrowingKnife"
secondary_item(player) == IF player.class = "Wizard" THEN "WizardsDagger" ELSE NONE

HALF_PLAYER == Vec(PLAYER_SIZE \div 2, PLAYER_SIZE \div 2)
player_polygon(player) == easy_polygon(VAdd(player.pos, HALF_PLAYER), HALF_PLAYER, EAST)

\* level 2 and above reach todo!(): the frame aborts
add_xp_panics(player) == player.level >= 2
add_xp(player, xp) ==
    LET total == player.xp + xp
        xp_to_level_up == IF player.level = 0 THEN 14 ELSE 16
    IN  IF total >= xp_to_level_up
        THEN [player EXCEPT !.xp = 0,
                            !.level = @ + 1,
                            !.mp.max_points = @ + 2,
                            !.mp.points = @ + 2,
                            !.hp.max_points = @ + 1,
                            !.hp.points = @ + 1]
        ELSE [player EXCEPT !.xp = total]

HasEnchantment(ench, kind) == \E e \in ench : e.kind = kind
GetEnchantment(ench, kind) == CHOOSE e \in ench : e.kind = kind

\* speed is Some(v) for a forced move and None (here -1) for a walk
move_player(player, angle, speed, floor) ==
    LET speed_mul_div ==
            IF HasEnchantment(player.enchantments, "Sticky")
            THEN GetEnchantment(player.enchantments, "Sticky").strength ELSE 1
        s == IF speed = -1 THEN PLAYER_SPEED \div speed_mul_div ELSE speed
        distance == DirVec(angle, s)
        collision_info == collision_dir(floor, player_polygon(player), distance)
    IN  [player EXCEPT !.pos =
            Vec(IF collision_info.x THEN @.x ELSE @.x + distance.x,
                IF collision_info.y THEN @.y ELSE @.y + distance.y)]

\* A damage_player that does not look at the invincibility frames.  The
\* code returns at once while they last; the property of the invincibility
\* frames below tells the two apart.
damage_player_through_invincibility(player, damage, damage_direction, floor) ==
    [move_player([player EXCEPT !.hp.points = Max(0, @ - damage)],
                 damage_direction, PLAYER_SIZE, floor)
        EXCEPT !.invincibility_frames = damage * 2]

damage_player(player, damage, damage_direction, floor) ==
    IF player.invincibility_frames > 0 THEN player
    ELSE LET hurt == [player EXCEPT !.hp.points = Max(0, @ - damage)]
             moved == move_player(hurt, damage_direction, PLAYER_SIZE, floor)
         IN  [moved EXCEPT !.invincibility_frames = damage * 2]

regen(point_info) ==
    IF point_info.points < point_info.max_points
    THEN LET t == Max(0, point_info.time_til_regen - 1) IN
         IF t = 0
         THEN [point_info EXCEPT !.points = @ + 1, !.time_til_regen = point_info.regen_rate]
         ELSE [point_info EXCEPT !.time_til_regen = t]
    ELSE point_info

\* An update that takes two frames off the cooldowns at once.  The code
\* takes one; the cooldown property below tells the two apart.
update_cooldowns_two_at_a_time(players) ==
    [i \in DOMAIN players |->
        IF players[i].hp.points # 0
        THEN [players[i] EXCEPT !.primary_cooldown = Max(0, @ - 2),
                                !.secondary_cooldown = Max(0, @ - 2),
                                !.invincibility_frames = Max(0, @ - 1),
                                !.hp = regen(@),
                                !.mp = regen(@)]
        ELSE players[i]]

update_cooldowns(players) ==
    [i \in DOMAIN players |->
        LET player == players[i] IN
        IF player.hp.points # 0
        THEN [player EXCEPT !.primary_cooldown = Max(0, @ - 1),
                            !.secondary_cooldown = Max(0, @ - 1),
                            !.invincibility_frames = Max(0, @ - 1),
                            !.hp = regen(@),
                            !.mp = regen(@)]
        ELSE player]

\* Enchantable for Player
ENCHANT_TIME_BLINDED == 60
ENCHANT_TIME_STICKY == 60
ENCHANT_TIME_REGENERATING == 480
player_apply_enchantment(player, kind, strength) ==
    IF HasEnchantment(player.enchantments, kind) THEN player
    ELSE LET enchantment_time ==
                 IF kind = "Blinded" THEN ENCHANT_TIME_BLINDED
                 ELSE IF kind = "Sticky" THEN ENCHANT_TIME_STICKY
                 ELSE ENCHANT_TIME_REGENERATING
         IN  [player EXCEPT !.enchantments =
                 @ \cup {[kind |-> kind, strength |-> strength, time |-> enchantment_time]}]

\* An update that heals on every call.  The code heals when the frames the
\* enchantment has left are a multiple of 60 / strength; the regeneration
\* property below tells the two apart.
player_update_enchantments_healing_always(player) ==
    [player EXCEPT
        !.hp.points = IF HasEnchantment(player.enchantments, "Regenerating")
                         /\ @ < player.hp.max_points THEN @ + 1 ELSE @,
        !.enchantments = {[e EXCEPT !.time = @ - 1] : e \in {d \in @ : d.time - 1 # 0}}]

\* defined by the source and called by nothing the frame runs
player_update_enchantments(player) ==
    LET heals == \E e \in player.enchantments :
                    /\ e.kind = "Regenerating"
                    /\ e.time % (60 \div e.strength) = 0
                    /\ player.hp.points < player.hp.max_points
    IN  [player EXCEPT
            !.hp.points = IF heals THEN @ + 1 ELSE @,
            !.enchantments = {[e EXCEPT !.time = @ - 1] : e \in {d \in @ : d.time - 1 # 0}}]

\* ---------------------------------------------------------------------
\* monsters: shapes and damage taken (the AI follows further down)
\* ---------------------------------------------------------------------
SLIME_SIZE == 14 * PX
SLIME_MAX_HEALTH == 15
RAT_SIZE == (225 * PX) \div 10
RAT_MAX_HEALTH == 35

monster_size(m) ==
    IF m.kind = "GreenSlime" THEN SLIME_SIZE
    ELSE IF m.attack_mode = "Attacking" THEN (RAT_SIZE * 11) \div 10 ELSE RAT_SIZE
\* AxisAlignedBoundingBox { pos, size } as a polygon
box_polygon(pos, size) ==
    easy_polygon(Vec(pos.x + size.x \div 2, pos.y + size.y \div 2),
                 Vec(size.x \div 2, size.y \div 2), EAST)
monster_polygon(m) == box_polygon(m.pos, Vec(monster_size(m), monster_size(m)))

slime_take_damage(m, damage_info) ==
    [m EXCEPT !.health = Max(0, @ - damage_info.damage),
              !.damaged_by = @ \cup {damage_info.player}]

\* SmallRat::take_damage
rat_take_damage(m, damage_info, floor) ==
    LET hurt == [m EXCEPT !.health = Max(0, @ - damage_info.damage),
                          !.enchantments =
                              {IF e.kind = "Blinded"
                               THEN [e EXCEPT !.frames_left = @ \div 2] ELSE e : e \in @}]
        change == DirVec(damage_info.direction,
                         (monster_size(m) * damage_info.damage * 2) \div RAT_MAX_HEALTH)
    IN  IF collision(floor, monster_polygon(hurt), change)
        THEN hurt
        ELSE [hurt EXCEPT !.pos = VAdd(@, change)]

\* The Monster trait has the rat keep damaged_by and answer xp(); the file
\* of the rat predates both.  They are taken from the description of a
\* monster: the set of the players that damaged it, and a fixed amount.
rat_record_damage(m, damage_info) == [m EXCEPT !.damaged_by = @ \cup {damage_info.player}]
rat_xp(m) == 2

take_damage(m, damage_info, floor) ==
    IF m.kind = "GreenSlime" THEN slime_take_damage(m, damage_info)
    ELSE rat_record_damage(rat_take_damage(m, damage_info, floor), damage_info)

living(m) == m.health > 0

\* the first monster of the list the shape touches, 0 if none
FirstMonsterHit(monsters, poly) ==
    LET hit == {k \in 1..Len(monsters) : aabb_collision(poly, monster_polygon(monsters[k]), ZERO)}
    IN  IF hit = {} THEN 0 ELSE CHOOSE k \in hit : \A j \in hit : k <= j

\* ---------------------------------------------------------------------
\* attacks.  An attack is [kind, pos, angle, time, bounces, num_piercings,
\* player_index]; player_index is -1 for an attack no player owns.  update returns the
\* attack, the monsters and the players as it leaves them and whether the
\* attack is to be destroyed.
\* ---------------------------------------------------------------------
STAB_SPEED == 6 * PX
STAB_LIFETIME == 6
STAB_DAMAGE == 25
STAB_COOLDOWN == 50
STAB_MANA_COST == 0
MISSILE_SPEED == 5 * PX
MISSILE_HALF_SIZE == (75 * PX) \div 10
MISSILE_MAX_BOUNCES == 3
MISSILE_BASE_DAMAGE == 1
MISSILE_LIFETIME == 60
MISSILE_COOLDOWN == 45
MISSILE_MANA_COST == 1
SLIMEBALL_SPEED == (22 * PX) \div 10
SLIMEBALL_LIFETIME == 30
SLIMEBALL_DAMAGE == 6
SLIMEBALL_STRENGTH == 2
SLIMEBALL_COOLDOWN == 80
SLIMEBALL_MANA_COST == 0
SLASH_SPEED == 6 * PX
SLASH_LIFETIME == 10
SLASH_MAX_PIERCINGS == 6
SLASH_DAMAGE == 5
SLASH_COOLDOWN == 30
SLASH_MANA_COST == 0
BLINDING_LIGHT_LIFETIME == 60
\* SIZE of Stab and of Slimeball
DART_SIZE == Vec(15 * PX, 5 * PX)
SLASH_SIZE == Vec(10 * PX, 15 * PX)
BLINDING_LIGHT_SIZE == Vec(75 * PX, 25 * PX)

NewAttack(kind, poly, index, angle) ==
    [kind |-> kind, pos |-> poly.center, angle |-> angle, time |-> 0, bounces |-> 0,
     num_piercings |-> 0, player_index |-> index]
\* BlindingLight::new: the light starts one SIZE away from the player
NewBlindingLight(player, index, angle) ==
    [kind |-> "BlindingLight",
     pos |-> Vec(player.pos.x + MulCos(BLINDING_LIGHT_SIZE.x, angle),
                 player.pos.y + MulSin(BLINDING_LIGHT_SIZE.y, angle)),
     angle |-> angle, time |-> 0, bounces |-> 0, num_piercings |-> 0,
     player_index |-> index]

attack_polygon(a) ==
    IF a.kind = "MagicMissile"
    THEN easy_polygon(VAdd(a.pos, Vec(MISSILE_HALF_SIZE, MISSILE_HALF_SIZE)),
                      Vec(MISSILE_HALF_SIZE, MISSILE_HALF_SIZE), a.angle)
    ELSE IF a.kind = "Slash" THEN box_polygon(a.pos, SLASH_SIZE)
    ELSE IF a.kind = "BlindingLight" THEN box_polygon(a.pos, BLINDING_LIGHT_SIZE)
    ELSE box_polygon(a.pos, DART_SIZE)

KNIFE_COOLDOWN == 10
KNIFE_MANA_COST == 0
KNIFE_SIZE == Vec(10 * PX, 20 * PX)
BLINDING_LIGHT_COOLDOWN == 60 * 8
cooldown(a) ==
    IF a.kind = "Stab" THEN STAB_COOLDOWN
    ELSE IF a.kind = "Slash" THEN SLASH_COOLDOWN
    ELSE IF a.kind = "MagicMissile" THEN MISSILE_COOLDOWN
    ELSE IF a.kind = "BlindingLight" THEN BLINDING_LIGHT_COOLDOWN
    ELSE IF a.kind = "ThrownKnife" THEN KNIFE_COOLDOWN ELSE SLIMEBALL_COOLDOWN
mana_cost(a) ==
    IF a.kind = "Stab" THEN STAB_MANA_COST
    ELSE IF a.kind = "Slash" THEN SLASH_MANA_COST
    ELSE IF a.kind = "MagicMissile" THEN MISSILE_MANA_COST
    ELSE IF a.kind = "ThrownKnife" THEN KNIFE_MANA_COST ELSE SLIMEBALL_MANA_COST

UpdateResult(a, monsters, players, done) ==
    [attack |-> a, monsters |-> monsters, players |-> players, done |-> done]

\* A stab that never expires.  The code destroys it once its time reaches
\* 6; the lifecycle property below tells the two apart.
stab_update_without_lifetime(a, floor, monsters, players) ==
    LET movement == DirVec(a.angle, STAB_SPEED) IN
    IF collision(floor, attack_polygon(a), movement)
    THEN UpdateResult(a, monsters, players, TRUE)
    ELSE LET moved == [a EXCEPT !.pos = VAdd(@, movement), !.time = @ + 1]
             k == FirstMonsterHit(monsters, attack_polygon(moved))
             damage_info == [damage |-> STAB_DAMAGE,
                             direction |-> get_angle(monsters[k].pos, moved.pos),
                             player |-> moved.player_index]
         IN  IF k = 0 THEN UpdateResult(moved, monsters, players, FALSE)
             ELSE UpdateResult(moved,
                      [monsters EXCEPT ![k] = take_damage(@, damage_info, floor)],
                      players, TRUE)

stab_update(a, floor, monsters, players) ==
    LET movement == DirVec(a.angle, STAB_SPEED) IN
    IF collision(floor, attack_polygon(a), movement)
    THEN UpdateResult(a, monsters, players, TRUE)
    ELSE LET moved == [a EXCEPT !.pos = VAdd(@, movement), !.time = @ + 1] IN
         IF moved.time >= STAB_LIFETIME
         THEN UpdateResult(moved, monsters, players, TRUE)
         ELSE LET k == FirstMonsterHit(monsters, attack_polygon(moved)) IN
              IF k = 0 THEN UpdateResult(moved, monsters, players, FALSE)
              ELSE LET damage_info ==
                           [damage |-> STAB_DAMAGE,
                            direction |-> get_angle(monsters[k].pos, moved.pos),
                            player |-> moved.player_index]
                   IN  UpdateResult(moved,
                           [monsters EXCEPT ![k] = take_damage(@, damage_info, floor)],
                           players, TRUE)

RECURSIVE Pow(_, _)
Pow(b, e) == IF e = 0 THEN 1 ELSE (b * Pow(b, e - 1)) % 65536

\* the first part of MagicMissile::update: the movement and the missile
\* after the test against the walls
missile_wall_bounce(a, floor) ==
    With(DirVec(a.angle, MISSILE_SPEED), LAMBDA m0 :
    With(collision_dir(floor, attack_polygon(a), m0), LAMBDA wall :
    With(Vec(IF wall.x THEN -m0.x ELSE m0.x, IF wall.y THEN -m0.y ELSE m0.y), LAMBDA m1 :
         [movement |-> m1,
          attack |-> [a EXCEPT !.bounces = IF (wall.x \/ wall.y) /\ @ < MISSILE_MAX_BOUNCES
                                           THEN @ + 1 ELSE @,
                               !.angle = get_angle(m1, ZERO)]])))

\* A damage that grows by one with every bounce.  The code raises
\* BASE_DAMAGE to the power 1 + bounces; the damage property below tells
\* the two apart.
missile_damage_linear(a) == MISSILE_BASE_DAMAGE * (1 + a.bounces)

\* BASE_DAMAGE.pow((1 + self.bounces).into())
missile_damage(a) == Pow(MISSILE_BASE_DAMAGE, 1 + a.bounces)

magic_missile_update(a, floor, monsters, players) ==
    With(missile_wall_bounce(a, floor), LAMBDA bounced :
    With(bounced.attack, LAMBDA a1 :
    With(FirstMonsterHit(monsters, attack_polygon(a1)), LAMBDA k :
    LET m1 == bounced.movement
        damage_info == [damage |-> missile_damage(a1),
                        direction |-> get_angle(monsters[k].pos, a1.pos),
                        player |-> a1.player_index]
        \* a monster is touched on both axes or on none (the offset is zero)
        m2 == IF k # 0 /\ a1.bounces > 0 THEN Vec(-m1.x, -m1.y) ELSE m1
        a2 == IF k = 0 THEN a1
              ELSE IF a1.bounces > 0
              THEN [a1 EXCEPT !.angle = get_angle(m2, ZERO),
                              !.bounces = IF @ < MISSILE_MAX_BOUNCES THEN @ + 1 ELSE @]
              ELSE [a1 EXCEPT !.pos = VSub(@, m1), !.time = @ + 1]
        a3 == [a2 EXCEPT !.pos = VAdd(@, m2), !.time = @ + 1]
    IN  UpdateResult(a3,
            IF k = 0 THEN monsters
            ELSE [monsters EXCEPT ![k] = take_damage(@, damage_info, floor)],
            players, a3.time >= MISSILE_LIFETIME))))

\* the first player of the list the shape touches, 0 if none
FirstPlayerHit(players, poly) ==
    LET hit == {i \in DOMAIN players : aabb_collision(poly, player_polygon(players[i]), ZERO)}
    IN  IF hit = {} THEN 0 ELSE CHOOSE i \in hit : \A j \in hit : i <= j

slimeball_update(a, floor, monsters, players) ==
    LET movement == DirVec(a.angle, SLIMEBALL_SPEED) IN
    IF collision(floor, attack_polygon(a), movement)
    THEN UpdateResult(a, monsters, players, TRUE)
    ELSE LET moved == [a EXCEPT !.pos = VAdd(@, movement), !.time = @ + 1] IN
         IF moved.time >= SLIMEBALL_LIFETIME
         THEN UpdateResult(moved, monsters, players, TRUE)
         ELSE LET i == FirstPlayerHit(players, attack_polygon(moved)) IN
              IF i = 0 THEN UpdateResult(moved, monsters, players, FALSE)
              ELSE LET direction == get_angle(players[i].pos, moved.pos)
                       hurt == damage_player(players[i], SLIMEBALL_DAMAGE, direction, floor)
                   IN  UpdateResult(moved, monsters,
                           [players EXCEPT ![i] =
                               player_apply_enchantment(hurt, "Sticky", SLIMEBALL_STRENGTH)],
                           TRUE)

\* every monster the shape touches
MonstersHit(monsters, poly) ==
    {k \in 1..Len(monsters) : aabb_collision(poly, monster_polygon(monsters[k]), ZERO)}

slash_update(a, floor, monsters, players) ==
    LET movement == DirVec(a.angle, SLASH_SPEED) IN
    IF collision(floor, attack_polygon(a), movement)
    THEN UpdateResult(a, monsters, players, TRUE)
    ELSE LET moved == [a EXCEPT !.pos = VAdd(@, movement), !.time = @ + 1] IN
         IF moved.time >= SLASH_LIFETIME
         THEN UpdateResult(moved, monsters, players, TRUE)
         ELSE IF moved.num_piercings >= SLASH_MAX_PIERCINGS
         THEN UpdateResult(moved, monsters, players, TRUE)
         ELSE LET hit == MonstersHit(monsters, attack_polygon(moved))
                  damage_info(m) == [damage |-> SLASH_DAMAGE,
                                     direction |-> get_angle(m.pos, moved.pos),
                                     player |-> moved.player_index]
              IN  UpdateResult(
                      [moved EXCEPT !.num_piercings = (@ + Cardinality(hit)) % 256],
                      [k \in 1..Len(monsters) |->
                          IF k \in hit
                          THEN take_damage(monsters[k], damage_info(monsters[k]), floor)
                          ELSE monsters[k]],
                      players, FALSE)

\* ---------------------------------------------------------------------
\* items.rs / player.rs: attacking and doors
\* ---------------------------------------------------------------------
\* items.rs attack_with_item: Some(attack) as <<attack>>, None as <<>>.
\* The glove casts spells[0], which is MagicMissile for a Wizard as long as
\* the spells are not cycled (the key that cycles them is commented out in
\* input.rs); the dagger stabs.  A knife that was thrown is only created
\* here: its update is not modelled and no player of the game steps below
\* throws one.
attack_with_item(item, player, index) ==
    IF item = "ShortSword"
    THEN <<NewAttack("Slash", player_polygon(player), index, player.angle)>>
    ELSE IF item = "WizardsDagger"
    THEN <<NewAttack("Stab", player_polygon(player), index, player.angle)>>
    ELSE IF item = "WizardGlove"
    THEN <<NewAttack("MagicMissile", player_polygon(player), index, player.angle)>>
    ELSE IF item = "ThrowingKnife"
    THEN <<[NewAttack("ThrownKnife", player_polygon(player), index, player.angle)
               EXCEPT !.pos = VSub(@, Vec(KNIFE_SIZE.x \div 2, KNIFE_SIZE.y \div 2))]>>
    ELSE <<>>

\* AttackObj::side_effects: what the attack does to the player that made
\* it.  A Stab, a Slash and a thrown knife carry the player one PLAYER_SIZE
\* forward, a MagicMissile pushes the player 1.5 pixels back, each unless
\* the floor is in the way; a Slimeball does nothing.
side_effects(a, player, floor) ==
    LET back == DirVec(a.angle, (15 * PX) \div 10)
        change == IF a.kind = "MagicMissile" THEN Vec(-back.x, -back.y)
                  ELSE DirVec(a.angle, PLAYER_SIZE)
    IN  IF a.kind \notin {"Stab", "Slash", "ThrownKnife", "MagicMissile"} THEN player
        ELSE IF collision(floor, player_polygon(player), change) THEN player
        ELSE [player EXCEPT !.pos = VAdd(@, change)]

\* An attack call that pays what mana there is and attacks all the same.
\* The code returns without attacking when the mana does not cover the
\* cost; the gate property below tells the two apart.
player_attack_without_gate(player, index, attacks, is_primary) ==
    LET item == IF is_primary THEN primary_item(player) ELSE secondary_item(player)
        made == attack_with_item(item, player, index)
        paid == [player EXCEPT !.mp.points = Max(0, @ - mana_cost(made[1]))]
    IN  IF made = <<>> THEN [player |-> player, attacks |-> attacks]
        ELSE IF (IF is_primary THEN player.primary_cooldown
                 ELSE player.secondary_cooldown) # 0
        THEN [player |-> player, attacks |-> attacks]
        ELSE [player |-> IF is_primary
                         THEN [paid EXCEPT !.primary_cooldown = cooldown(made[1])]
                         ELSE [paid EXCEPT !.secondary_cooldown = cooldown(made[1])],
              attacks |-> Append(attacks, made[1])]

\* returns the player and the attack list as the call leaves them
player_attack(player, index, attacks, is_primary) ==
    LET unchanged == [player |-> player, attacks |-> attacks]
        slot_cooldown == IF is_primary THEN player.primary_cooldown
                         ELSE player.secondary_cooldown
        item == IF is_primary THEN primary_item(player) ELSE secondary_item(player)
    IN  IF slot_cooldown # 0 THEN unchanged
        ELSE IF item = NONE THEN unchanged
        ELSE IF item = "ThrowingKnife" /\ player.stack_count = 0 THEN unchanged
        ELSE LET armed == IF item = "ThrowingKnife"
                          THEN [player EXCEPT !.stack_count = @ - 1] ELSE player
                 made == attack_with_item(item, armed, index)
                 attack == made[1]
             IN  IF made = <<>> THEN [player |-> armed, attacks |-> attacks]
                 ELSE IF armed.mp.points >= mana_cost(attack)
                 THEN [player |->
                          IF is_primary
                          THEN [armed EXCEPT !.mp.points = @ - mana_cost(attack),
                                             !.primary_cooldown = cooldown(attack)]
                          ELSE [armed EXCEPT !.mp.points = @ - mana_cost(attack),
                                             !.secondary_cooldown = cooldown(attack)],
                       attacks |-> Append(attacks, attack)]
                 ELSE [player |-> armed, attacks |-> attacks]

\* which of two candidate doors the reduce of interact_with_door keeps
PickDoor(floor, entity, interaction, d1, d2) ==
    LET affected(d) == IF interaction = "Opening" THEN d \notin floor.open_doors
                       ELSE IF interaction = "Closing" THEN d \in floor.open_doors
                       ELSE TRUE
    IN  IF affected(d1) /\ affected(d2)
        THEN IF aabb_collision(ObjPolygon[d1], entity, ZERO) THEN d1 ELSE d2
        ELSE IF affected(d1) THEN d1 ELSE d2
RECURSIVE ReduceDoors(_, _, _, _, _)
ReduceDoors(floor, entity, interaction, acc, rest) ==
    IF rest = <<>> THEN acc
    ELSE ReduceDoors(floor, entity, interaction,
                     PickDoor(floor, entity, interaction, acc, Head(rest)), Tail(rest))

\* returns the floor as the call leaves it
interact_with_door(entity, interaction, floor, monsters) ==
    LET entity_tile_pos == pos_to_tile(entity)
        candidates ==
            {d \in doors(floor) :
                /\ Abs(Layout[d].pos.x - entity_tile_pos.x) <= 1
                /\ Abs(Layout[d].pos.y - entity_tile_pos.y) <= 1
                /\ Layout[d].pos # entity_tile_pos
                /\ ~ \E k \in 1..Len(monsters) :
                        pos_to_tile(monster_polygon(monsters[k])) = Layout[d].pos}
        ordered == SortedSeq(candidates)
    IN  IF candidates = {} THEN floor
        ELSE LET door == ReduceDoors(floor, entity, interaction, Head(ordered), Tail(ordered))
             IN  IF interaction = "Opening"
                 THEN [floor EXCEPT !.open_doors = @ \cup {door}]
                 ELSE IF interaction = "Closing"
                 THEN [floor EXCEPT !.open_doors = @ \ {door}]
                 ELSE IF door \in floor.open_doors
                 THEN [floor EXCEPT !.open_doors = @ \ {door}]
                 ELSE [floor EXCEPT !.open_doors = @ \cup {door}]

\* ---------------------------------------------------------------------
\* monsters/slime.rs: the AI of the GreenSlime.  A monster is
\* [kind, pos, health, attack_mode, current_path, path_i, current_target,
\*  time_til_move, time_spent_moving, time_til_attack, enchantments,
\*  damaged_by]; current_path = <<>> is None, path_i is the cursor (from 0).
\* A movement step returns the monster, the generator state it leaves and
\* whether it panicked.
\* ---------------------------------------------------------------------
NoTarget == [type |-> NONE, pos |-> ZERO, index |-> 0]
TargetPos(pos) == [type |-> "Pos", pos |-> pos, index |-> 0]
TargetPlayer(i) == [type |-> "PlayerIndex", pos |-> ZERO, index |-> i]
DistSq(a, b) == (a.x - b.x) * (a.x - b.x) + (a.y - b.y) * (a.y - b.y)
Moved(m, r, panicked) == [m |-> m, rng |-> r, panicked |-> panicked]

SLIME_FIRST_ATTACK == 30
SLIME_VIEW == 10
SLIME_FLEE_TILES == 4
SLIME_PASSIVE_SPEED == PX
SLIME_ATTACK_SPEED == (13 * PX) \div 10
SLIME_DAMAGE == 10
SLIME_XP == 2

NewSlime(pos) ==
    [kind |-> "GreenSlime", pos |-> pos, health |-> SLIME_MAX_HEALTH,
     attack_mode |-> "Passive", current_path |-> <<>>, path_i |-> 0,
     current_target |-> NoTarget, time_til_move |-> 0, time_spent_moving |-> 0,
     time_til_attack |-> SLIME_FIRST_ATTACK, enchantments |-> {}, damaged_by |-> {}]

step_pathfinding(m, floor, speed) ==
    IF m.current_path # <<>>
    THEN IF m.path_i < Len(m.current_path)
         THEN LET pos == m.current_path[m.path_i + 1] IN
              IF speed * speed >= DistSq(m.pos, pos)
              THEN [m EXCEPT !.pos = pos, !.path_i = @ + 1]
              ELSE [m EXCEPT !.pos = VAdd(@, DirVec(get_angle(pos, m.pos), speed))]
         ELSE [m EXCEPT !.current_path = <<>>, !.path_i = 0, !.current_target = NoTarget]
    ELSE IF m.current_target.type = "Pos"
         THEN LET path == find_path(floor, monster_polygon(m),
                                    box_polygon(m.current_target.pos,
                                                Vec(TILE_SIZE, TILE_SIZE)),
                                    FALSE, TRUE)
              IN  IF path # <<>>
                  THEN [m EXCEPT !.current_path = path, !.path_i = 1]
                  ELSE [m EXCEPT !.current_path = <<>>, !.path_i = 0,
                                 !.current_target = NoTarget]
         ELSE m

\* the nearest player, the later one of two equally near
RECURSIVE NearestFrom(_, _, _, _)
NearestFrom(players, c, best, i) ==
    IF i > Len(players) THEN best
    ELSE NearestFrom(players, c,
             IF DistSq(player_polygon(players[best]).center, c)
                  < DistSq(player_polygon(players[i]).center, c)
             THEN best ELSE i,
             i + 1)

slime_attack_mode(m, players, floor, r) ==
    LET c == monster_polygon(m).center
        p == NearestFrom(players, c, 1, 2)
        pc == player_polygon(players[p]).center
        flee == (SLIME_FLEE_TILES * TILE_SIZE) * (SLIME_FLEE_TILES * TILE_SIZE)
        valid_objs ==
            SelectSeq(SortedSeq(TileIdx),
                LAMBDA i : /\ (is_collidable(floor, i) => Layout[i].has_door)
                           /\ DistSq(ObjPolygon[i].center, pc) >= flee)
    IN  IF DistSq(pc, c) <= flee
        THEN IF valid_objs = <<>> THEN Moved(m, rand_next(r), TRUE)
             ELSE LET obj == choose(valid_objs, r)
                      target == Vec(Layout[obj].pos.x * TILE_SIZE, Layout[obj].pos.y * TILE_SIZE)
                  IN  Moved(step_pathfinding([m EXCEPT !.current_target = TargetPos(target)],
                                             floor, SLIME_ATTACK_SPEED),
                            rand_next(r), FALSE)
        ELSE Moved(step_pathfinding(m, floor, SLIME_ATTACK_SPEED), r, FALSE)

slime_passive_mode(m, players, floor, r) ==
    LET visible == visible_objects(floor, monster_polygon(m), SLIME_VIEW)
        should_aggro ==
            \E i \in DOMAIN players :
                \E v \in visible : Layout[v].pos = pos_to_tile(player_polygon(players[i]))
        valid_rooms == SelectSeq(SortedSeq(TileIdx), LAMBDA i : ~is_collidable(floor, i))
    IN  IF should_aggro THEN Moved([m EXCEPT !.attack_mode = "Attacking"], r, FALSE)
        ELSE IF m.current_target.type = NONE
        THEN IF valid_rooms = <<>> THEN Moved(m, rand_next(r), TRUE)
             ELSE LET room == choose(valid_rooms, r) IN
                  Moved(step_pathfinding(
                            [m EXCEPT !.current_target = TargetPos(ObjPolygon[room].center)],
                            floor, SLIME_PASSIVE_SPEED),
                        rand_next(r), FALSE)
        ELSE Moved(step_pathfinding(m, floor, SLIME_PASSIVE_SPEED), r, FALSE)

slime_movement(m, players, floor, r) ==
    IF m.attack_mode = "Passive" THEN slime_passive_mode(m, players, floor, r)
    ELSE slime_attack_mode(m, players, floor, r)

\* returns the monster and the attack list as the call leaves them
slime_attack(m, players, floor, attacks) ==
    LET t == Max(0, m.time_til_attack - 1)
        ticked == [m EXCEPT !.time_til_attack = t]
        visible == visible_objects(floor, monster_polygon(m), SLIME_VIEW)
        players_to_attack ==
            SelectSeq([i \in DOMAIN players |-> i],
                LAMBDA i : \E v \in visible :
                               Layout[v].pos = pos_to_tile(player_polygon(players[i])))
        slimeball(i) ==
            NewAttack("Slimeball", monster_polygon(m), -1,
                      get_angle(player_polygon(players[i]).center, monster_polygon(m).center))
    IN  IF t > 0 \/ players_to_attack = <<>>
        THEN [m |-> ticked, attacks |-> attacks]
        ELSE [m |-> [ticked EXCEPT !.time_til_attack = SLIMEBALL_COOLDOWN],
              attacks |-> attacks \o [k \in 1..Len(players_to_attack) |->
                                         slimeball(players_to_attack[k])]]

slime_damage_players(m, players, floor) ==
    [i \in DOMAIN players |->
        IF aabb_collision(player_polygon(players[i]), monster_polygon(m), ZERO)
        THEN damage_player(players[i], SLIME_DAMAGE, get_angle(players[i].pos, m.pos), floor)
        ELSE players[i]]

\* frames_left is decremented and the entry dropped at 0; no enchantment
\* is ever stored on a slime (apply_enchantment stores none)
slime_update_enchantments(m) ==
    LET ticked == {[e EXCEPT !.frames_left = Max(0, @ - 1)] : e \in m.enchantments}
        unblinded == \E e \in ticked : e.kind = "Blinded" /\ e.frames_left = 0
        kept == [m EXCEPT !.enchantments = {e \in ticked : e.frames_left # 0}]
    IN  IF unblinded
        THEN [kept EXCEPT !.attack_mode = "Passive", !.current_target = NoTarget,
                          !.current_path = <<>>, !.path_i = 0]
        ELSE kept

\* ---------------------------------------------------------------------
\* monsters/small_rat.rs: the AI of the SmallRat
\* ---------------------------------------------------------------------
RAT_AGGRO_TILES == 6
RAT_PASSIVE_SPEED == (7 * PX) \div 10
RAT_ATTACK_SPEED == PX
RAT_WAYPOINT_REACH == 2 * PX
RAT_DAMAGE == 20
RAT_AGGRO_WAIT == 30
RAT_LUNGE_WAIT == 45
RAT_UNBLIND_WAIT == 10
RAT_BLIND_SPEED == (12 * PX) \div 10

NewRat(pos, time_til_move) ==
    [kind |-> "SmallRat", pos |-> pos, health |-> RAT_MAX_HEALTH,
     attack_mode |-> "Passive", current_path |-> <<>>, path_i |-> 0,
     current_target |-> NoTarget, time_til_move |-> time_til_move,
     time_spent_moving |-> 0, time_til_attack |-> 0, enchantments |-> {},
     damaged_by |-> {}]

TilePx(i) == Vec(Layout[i].pos.x * TILE_SIZE, Layout[i].pos.y * TILE_SIZE)

\* the closure find_target of passive_mode: the floor tiles more than 5 and
\* less than 8 tiles away, in the order of the object list
rat_targets(m) ==
    SelectSeq(SortedSeq(TileIdx),
        LAMBDA i : /\ Layout[i].is_floor
                   /\ DistSq(TilePx(i), m.pos) > (5 * TILE_SIZE) * (5 * TILE_SIZE)
                   /\ DistSq(TilePx(i), m.pos) < (8 * TILE_SIZE) * (8 * TILE_SIZE))

\* find_path(my_monster, goal) of the rat: the goal is a point
rat_find_path(m, floor, goal) ==
    find_path(floor, monster_polygon(m), [center |-> goal], FALSE, FALSE)

rat_follow_path(m, speed) ==
    LET pos == m.current_path[m.path_i + 1] IN
    IF DistSq(m.pos, pos) < RAT_WAYPOINT_REACH * RAT_WAYPOINT_REACH
    THEN [m EXCEPT !.path_i = @ + 1]
    ELSE [m EXCEPT !.pos = VAdd(@, DirVec(get_angle(pos, m.pos), speed))]

InAggroRange(player, m) ==
    DistSq(player.pos, m.pos) <= (RAT_AGGRO_TILES * TILE_SIZE) * (RAT_AGGRO_TILES * TILE_SIZE)

\* the aggro check that ends passive_mode
rat_aggro(m, players) ==
    LET near == {i \in DOMAIN players : InAggroRange(players[i], m) /\ players[i].hp.points > 0}
    IN  IF near = {} THEN m
        ELSE [m EXCEPT !.time_til_move = RAT_AGGRO_WAIT, !.time_spent_moving = 0,
                       !.attack_mode = "Attacking",
                       !.current_target = TargetPlayer(CHOOSE i \in near : \A j \in near : i <= j),
                       !.current_path = <<>>, !.path_i = 0]

\* passive_mode up to the aggro check, from the monster with its timer ticked
\* and its target chosen
rat_wander(m, floor, r) ==
    IF m.time_til_move # 0 THEN Moved(m, r, FALSE)
    ELSE With(rat_find_path(m, floor, m.current_target.pos), LAMBDA path :
         LET retarget == m.current_path = <<>> /\ path = <<>>
             m1 == IF m.current_path # <<>> THEN m
                   ELSE IF path # <<>> THEN [m EXCEPT !.current_path = path, !.path_i = 1]
                   ELSE IF rat_targets(m) = <<>> THEN m
                   ELSE [m EXCEPT !.current_target = TargetPos(TilePx(choose(rat_targets(m), r)))]
             r1 == IF retarget THEN rand_next(r) ELSE r
         IN  IF m.current_path = <<>> /\ m.current_target.type # "Pos" THEN Moved(m, r, TRUE)
             ELSE IF retarget /\ rat_targets(m) = <<>> THEN Moved(m, r1, TRUE)
             ELSE IF m1.current_path = <<>> THEN Moved(m1, r1, FALSE)
             ELSE IF m1.path_i < Len(m1.current_path)
             THEN Moved(rat_follow_path(m1, RAT_PASSIVE_SPEED), r1, FALSE)
             ELSE Moved([m1 EXCEPT !.current_path = <<>>, !.path_i = 0,
                                   !.current_target = NoTarget,
                                   !.time_til_move = gen_range(120, 240, r1)],
                        rand_next(r1), FALSE))

rat_passive_mode(m, players, floor, r) ==
    LET ticked == [m EXCEPT !.time_til_move = Max(0, @ - 1)]
        fresh == ticked.current_target.type = NONE
        aimed == IF fresh /\ rat_targets(m) # <<>>
                 THEN [ticked EXCEPT !.current_target =
                                         TargetPos(TilePx(choose(rat_targets(m), r)))]
                 ELSE ticked
        r1 == IF fresh THEN rand_next(r) ELSE r
    IN  IF fresh /\ rat_targets(m) = <<>> THEN Moved(m, r1, TRUE)
        ELSE With(rat_wander(aimed, floor, r1), LAMBDA wandered :
             IF wandered.panicked THEN wandered
             ELSE Moved(rat_aggro(wandered.m, players), wandered.rng, FALSE))

\* attack_mode of the rat.  The closure of the re-target search returns the
\* index the rat already holds (its parameter is unnamed), so the target index
\* stays and only the player followed changes.
rat_attack_mode(m, players, floor) ==
    IF m.current_target.type # "PlayerIndex" THEN m
    ELSE
    LET ticked == [m EXCEPT !.time_til_move = Max(0, @ - 1)]
        i == m.current_target.index
        target_in_aggro_range == InAggroRange(players[i], m) /\ players[i].hp.points > 0
        near == {j \in DOMAIN players : InAggroRange(players[j], m)}
        p == IF target_in_aggro_range THEN i ELSE CHOOSE j \in near : \A k \in near : j <= k
        target_player == players[p]
    IN  IF ticked.time_til_move > 0 THEN ticked
        ELSE IF ~target_in_aggro_range /\ near = {}
        THEN [ticked EXCEPT !.current_target = NoTarget, !.attack_mode = "Passive"]
        ELSE
        With(rat_find_path(ticked, floor, target_player.pos), LAMBDA path :
        With(IF ticked.current_path = <<>> /\ path # <<>>
             THEN [ticked EXCEPT !.current_path = path, !.path_i = 1] ELSE ticked,
             LAMBDA m1 :
        With(IF m1.current_path = <<>> THEN m1
             ELSE IF m1.path_i < Len(m1.current_path)
             THEN rat_follow_path(m1, RAT_ATTACK_SPEED)
             ELSE With(rat_find_path(m1, floor, target_player.pos), LAMBDA again :
                  IF again # <<>> THEN [m1 EXCEPT !.current_path = again, !.path_i = 1]
                  ELSE m1),
             LAMBDA m2 :
        With(IF target_player.hp.points = 0
             THEN [m2 EXCEPT !.attack_mode = "Passive", !.current_target = NoTarget]
             ELSE m2,
             LAMBDA m3 :
        IF DistSq(target_player.pos, m.pos) <= TILE_SIZE * TILE_SIZE
        THEN [m3 EXCEPT !.pos = VAdd(@, DirVec(get_angle(target_player.pos, m3.pos), RAT_SIZE)),
                        !.time_til_move = RAT_LUNGE_WAIT]
        ELSE m3))))

rat_move_blindly(m, floor, r) ==
    IF m.time_til_move > 0 THEN Moved([m EXCEPT !.time_til_move = @ - 1], r, FALSE)
    ELSE IF m.current_target.type = "Pos"
    THEN LET pos == m.current_target.pos
             m1 == IF DistSq(pos, m.pos) < RAT_SIZE * RAT_SIZE
                   THEN [m EXCEPT !.current_target = NoTarget] ELSE m
             change == DirVec(get_angle(pos, m.pos), RAT_BLIND_SPEED)
             back == Vec(-((change.x * 3) \div 2), -((change.y * 3) \div 2))
         IN  IF ~collision(floor, monster_polygon(m1), change)
             THEN Moved([m1 EXCEPT !.pos = VAdd(@, change)], r, FALSE)
             ELSE IF ~collision(floor, monster_polygon(m1), back)
             THEN Moved([m1 EXCEPT !.pos = VAdd(@, back), !.current_target = NoTarget], r, FALSE)
             ELSE Moved([m1 EXCEPT !.current_target = NoTarget], r, FALSE)
    ELSE LET r1 == rand_next(r)
             direction == Vec(gen_range(-2 * TILE_SIZE, 2 * TILE_SIZE, r),
                              gen_range(-2 * TILE_SIZE, 2 * TILE_SIZE, r1))
             quarter == RAT_SIZE \div 4
         IN  Moved([m EXCEPT !.current_target =
                       TargetPos(Vec(direction.x + m.pos.x + quarter,
                                     direction.y + m.pos.y + quarter))],
                   rand_next(r1), FALSE)

rat_movement(m, players, floor, r) ==
    IF HasEnchantment(m.enchantments, "Blinded") THEN rat_move_blindly(m, floor, r)
    ELSE IF m.attack_mode = "Passive" THEN rat_passive_mode(m, players, floor, r)
    ELSE Moved(rat_attack_mode(m, players, floor), r, FALSE)

rat_damage_players(m, players, floor) ==
    [i \in DOMAIN players |->
        IF aabb_collision(player_polygon(players[i]), monster_polygon(m), ZERO)
        THEN damage_player(players[i], RAT_DAMAGE, get_angle(players[i].pos, m.pos), floor)
        ELSE players[i]]

rat_update_enchantments(m) ==
    LET ticked == {[e EXCEPT !.frames_left = Max(0, @ - 1)] : e \in m.enchantments}
        unblinded == \E e \in ticked : e.kind = "Blinded" /\ e.frames_left = 0
        kept == [m EXCEPT !.enchantments = {e \in ticked : e.frames_left # 0}]
    IN  IF unblinded
        THEN [kept EXCEPT !.attack_mode = "Passive", !.time_til_move = RAT_UNBLIND_WAIT,
                          !.time_spent_moving = 0, !.current_target = NoTarget,
                          !.current_path = <<>>, !.path_i = 0]
        ELSE kept

\* ---------------------------------------------------------------------
\* monsters/mod.rs: MonsterObj dispatch and update_monsters
\* ---------------------------------------------------------------------
movement(m, players, floor, r) ==
    IF m.kind = "GreenSlime" THEN slime_movement(m, players, floor, r)
    ELSE rat_movement(m, players, floor, r)
update_enchantments(m) ==
    IF m.kind = "GreenSlime" THEN slime_update_enchantments(m) ELSE rat_update_enchantments(m)
\* the default Monster::attack does nothing; only the slime overrides it
attack(m, players, floor, attacks) ==
    IF m.kind = "GreenSlime" THEN slime_attack(m, players, floor, attacks)
    ELSE [m |-> m, attacks |-> attacks]
damage_players(m, players, floor) ==
    IF m.kind = "GreenSlime" THEN slime_damage_players(m, players, floor)
    ELSE rat_damage_players(m, players, floor)
\* Monster::xp: the amount a dead monster gives to each player of damaged_by
xp(m) == IF m.kind = "GreenSlime" THEN SLIME_XP ELSE rat_xp(m)

\* Enchantable for MonsterObj: a slime stores nothing (Blinded costs it one
\* health), a rat stores every enchantment for 240 frames
RAT_ENCHANT_FRAMES == 240
RAT_BLINDED_WAIT == 50
\* A slime the light leaves alone.  The code takes 1 from the health of a
\* slime that is blinded; the property of the light below tells the two apart.
apply_enchantment_sparing_slimes(m, kind) ==
    IF m.kind = "GreenSlime" THEN m
    ELSE [m EXCEPT !.current_target = NoTarget, !.current_path = <<>>, !.path_i = 0,
                   !.time_til_move = RAT_BLINDED_WAIT,
                   !.enchantments = {e \in @ : e.kind # kind}
                                    \cup {[kind |-> kind, frames_left |-> RAT_ENCHANT_FRAMES]}]

\* health is a u16: `self.health -= 1` wraps at 0
apply_enchantment(m, kind) ==
    IF m.kind = "GreenSlime"
    THEN IF kind = "Blinded" THEN [m EXCEPT !.health = (@ + 65535) % 65536] ELSE m
    ELSE LET reset == IF kind = "Blinded"
                      THEN [m EXCEPT !.current_target = NoTarget, !.current_path = <<>>,
                                     !.path_i = 0, !.time_til_move = RAT_BLINDED_WAIT]
                      ELSE m
         IN  [reset EXCEPT !.enchantments =
                 {e \in @ : e.kind # kind} \cup {[kind |-> kind, frames_left |-> RAT_ENCHANT_FRAMES]}]

\* attacks/blinding_light.rs and attacks/mod.rs: the light enchants the
\* monsters it touches; update dispatches on the kind of the attack
\* A light that never goes out.  The code destroys it once its time reaches
\* 60; the lifetime property below tells the two apart.
blinding_light_update_without_lifetime(a, floor, monsters, players) ==
    UpdateResult([a EXCEPT !.time = @ + 1],
                 [k \in 1..Len(monsters) |->
                     IF k \in MonstersHit(monsters, attack_polygon(a))
                     THEN apply_enchantment(monsters[k], "Blinded") ELSE monsters[k]],
                 players, FALSE)

blinding_light_update(a, floor, monsters, players) ==
    LET lit == [a EXCEPT !.time = @ + 1] IN
    IF lit.time >= BLINDING_LIGHT_LIFETIME
    THEN UpdateResult(lit, monsters, players, TRUE)
    ELSE LET hit == MonstersHit(monsters, attack_polygon(lit))
         IN  UpdateResult(lit,
                 [k \in 1..Len(monsters) |->
                     IF k \in hit THEN apply_enchantment(monsters[k], "Blinded")
                     ELSE monsters[k]],
                 players, FALSE)

update(a, floor, monsters, players) ==
    IF a.kind = "Stab" THEN stab_update(a, floor, monsters, players)
    ELSE IF a.kind = "Slash" THEN slash_update(a, floor, monsters, players)
    ELSE IF a.kind = "BlindingLight" THEN blinding_light_update(a, floor, monsters, players)
    ELSE IF a.kind = "MagicMissile" THEN magic_missile_update(a, floor, monsters, players)
    ELSE slimeball_update(a, floor, monsters, players)

\* attacks.retain_mut(|attack| !attack.update(floor, players)): the attacks
\* are updated in list order, each seeing what the earlier ones left
RECURSIVE UpdateAttacksFrom(_, _, _, _, _, _)
UpdateAttacksFrom(attacks, k, kept, floor, monsters, players) ==
    IF k > Len(attacks)
    THEN [attacks |-> kept, monsters |-> monsters, players |-> players]
    ELSE With(update(attacks[k], floor, monsters, players), LAMBDA r :
         UpdateAttacksFrom(attacks, k + 1,
                           IF r.done THEN kept ELSE Append(kept, r.attack),
                           floor, r.monsters, r.players))
update_attacks(players, floor, monsters, attacks) ==
    UpdateAttacksFrom(attacks, 1, <<>>, floor, monsters, players)

\* the movement phase: every monster ticks its enchantments and moves, in
\* the order ord the scheduler happens to run them (a permutation of the
\* list positions); the draws of the shared generator follow that order
RECURSIVE MoveInOrder(_, _, _, _, _, _)
MoveInOrder(monsters, ord, k, players, floor, r) ==
    IF k > Len(ord) THEN [monsters |-> monsters, rng |-> r, panicked |-> FALSE]
    ELSE With(movement(update_enchantments(monsters[ord[k]]), players, floor, r),
              LAMBDA moved :
                  IF moved.panicked
                  THEN [monsters |-> monsters, rng |-> moved.rng, panicked |-> TRUE]
                  ELSE MoveInOrder([monsters EXCEPT ![ord[k]] = moved.m], ord, k + 1,
                                   players, floor, moved.rng))

\* add_xp for every player of a set, in any order (the calls touch
\* different players)
RECURSIVE AwardXp(_, _, _)
AwardXp(players, indices, amount) ==
    IF indices = {} THEN players
    ELSE LET i == CHOOSE j \in indices : TRUE IN
         AwardXp([players EXCEPT ![i] = add_xp(@, amount)], indices \ {i}, amount)

\* monsters.retain_mut(...): attack, damage the players, drop the dead and
\* pay their XP, in list order
RECURSIVE RetainFrom(_, _, _, _, _, _)
RetainFrom(monsters, k, kept, players, floor, attacks) ==
    IF k > Len(monsters)
    THEN [monsters |-> kept, players |-> players, attacks |-> attacks, panicked |-> FALSE]
    ELSE With(attack(monsters[k], players, floor, attacks), LAMBDA attacked :
         With(attacked.m, LAMBDA m :
         With(damage_players(m, players, floor), LAMBDA hurt :
             IF living(m)
             THEN RetainFrom(monsters, k + 1, Append(kept, m), hurt, floor, attacked.attacks)
             ELSE IF \E i \in m.damaged_by : add_xp_panics(hurt[i])
             THEN [monsters |-> kept, players |-> hurt, attacks |-> attacked.attacks,
                   panicked |-> TRUE]
             ELSE RetainFrom(monsters, k + 1, kept, AwardXp(hurt, m.damaged_by, xp(m)),
                             floor, attacked.attacks))))

update_monsters(players, floor_info, attacks, r, ord) ==
    With(MoveInOrder(floor_info.monsters, ord, 1, players, floor_info.floor, r),
         LAMBDA moved :
        IF moved.panicked
        THEN [players |-> players, floor_info |-> floor_info, attacks |-> attacks,
              rng |-> moved.rng, panicked |-> TRUE]
        ELSE With(RetainFrom(moved.monsters, 1, <<>>, players, floor_info.floor, attacks),
                  LAMBDA kept :
             [players |-> kept.players,
              floor_info |-> [floor_info EXCEPT !.monsters = kept.monsters],
              attacks |-> kept.attacks, rng |-> moved.rng, panicked |-> kept.panicked]))

\* ---------------------------------------------------------------------
\* map.rs: traps, tile effects, descending.  A FloorInfo is
\* [floor |-> [open_doors, triggered, effects], monsters]; its rooms, spawn
\* and exit are those of the layout.  effects is a set of
\* [tile, effect_type, time_til_dissipate] (-1 for None).
\* ---------------------------------------------------------------------
SPAWN_BURST == 6
MONSTER_TYPES == <<"SmallRat">>

\* a random tile of a room, as both trap arms draw it: x first, then y
RandTile(room, r) ==
    Vec(gen_range(room.top_left.x + 1, room.bottom_right.x - 1, r),
        gen_range(room.top_left.y + 1, room.bottom_right.y - 1, rand_next(r)))

\* one monster of the burst: its tile, its kind, and what new() draws
SpawnOne(room, r) ==
    LET tile_pos == RandTile(room, r)
        r2 == rand_next(rand_next(r))
        kind == choose(MONSTER_TYPES, r2)
        r3 == rand_next(r2)
        pos == Vec(tile_pos.x * TILE_SIZE, tile_pos.y * TILE_SIZE)
    IN  IF kind = "SmallRat"
        THEN [m |-> NewRat(pos, gen_range(0, 180, r3)), rng |-> rand_next(r3)]
        ELSE [m |-> NewSlime(pos), rng |-> r3]
RECURSIVE SpawnBurst(_, _, _, _)
SpawnBurst(room, n, monsters, r) ==
    IF n = 0 THEN [monsters |-> monsters, rng |-> r]
    ELSE LET one == SpawnOne(room, r) IN
         SpawnBurst(room, n - 1, Append(monsters, one.m), one.rng)

\* what one player does to one trap it may stand on
TrapResult(players, floor_info, r, fired, panicked) ==
    [players |-> players, floor_info |-> floor_info, rng |-> r, fired |-> fired,
     panicked |-> panicked]
trigger_one(t, i, st) ==
    LET player_tile_pos == pos_to_tile(player_polygon(st.players[i]))
        marked == [st.floor_info EXCEPT !.floor.triggered = @ \cup {t}]
        fired == [st.fired EXCEPT ![t] = @ + 1]
        rand_room == choose(Rooms, st.rng)
        rand_pos == RandTile(rand_room, rand_next(st.rng))
        player_rooms == {k \in 1..Len(Rooms) : inside_room(Rooms[k], player_tile_pos)}
        burst == SpawnBurst(Rooms[CHOOSE k \in player_rooms : \A j \in player_rooms : k <= j],
                            SPAWN_BURST, marked.monsters, st.rng)
    IN  IF st.panicked \/ player_tile_pos # Layout[t].pos THEN st
        ELSE IF Layout[t].trap_type = "Teleport"
        THEN TrapResult([st.players EXCEPT ![i].pos =
                            Vec(rand_pos.x * TILE_SIZE, rand_pos.y * TILE_SIZE)],
                        marked, rand_next(rand_next(rand_next(st.rng))), fired, FALSE)
        ELSE IF player_rooms = {} THEN TrapResult(st.players, marked, st.rng, fired, TRUE)
        ELSE TrapResult(st.players, [marked EXCEPT !.monsters = burst.monsters],
                        burst.rng, fired, FALSE)

RECURSIVE TriggerPlayers(_, _, _)
TriggerPlayers(t, i, st) ==
    IF i > Len(st.players) THEN st
    ELSE TriggerPlayers(t, i + 1, trigger_one(t, i, st))
RECURSIVE TriggerTraps(_, _)
TriggerTraps(traps, st) ==
    IF traps = <<>> THEN st
    ELSE TriggerTraps(Tail(traps), TriggerPlayers(Head(traps), 1, st))

\* fired counts, for each trap, how often this call ran its effect
trigger_traps(players, floor_info, r) ==
    TriggerTraps(SortedSeq(untriggered_traps(floor_info.floor)),
                 TrapResult(players, floor_info, r, [t \in TrapTiles |-> 0], FALSE))

\* EffectType into Enchantment: Sticky of strength 1
EFFECT_STRENGTH == 1
RECURSIVE ApplyEffects(_, _, _)
ApplyEffects(n, players, monsters) ==
    IF n = 0 THEN [players |-> players, monsters |-> monsters]
    ELSE ApplyEffects(n - 1,
             [i \in DOMAIN players |->
                 player_apply_enchantment(players[i], "Sticky", EFFECT_STRENGTH)],
             [k \in DOMAIN monsters |-> apply_enchantment(monsters[k], "Sticky")])
\* every effect of every object is applied to every player and monster
set_effects(players, floor_info) ==
    LET applied == ApplyEffects(Cardinality(floor_info.floor.effects), players,
                                floor_info.monsters)
    IN  [players |-> applied.players,
         floor_info |-> [floor_info EXCEPT !.monsters = applied.monsters]]

update_effects(floor) ==
    [floor EXCEPT !.effects =
        {IF e.time_til_dissipate = -1 THEN e
         ELSE [e EXCEPT !.time_til_dissipate = @ - 1] :
            e \in {d \in @ : d.time_til_dissipate # 1}}]

\* FloorInfo::should_descend and Map::descend.  A Map is
\* [current_floor_index, rooms] with rooms the list of the FloorInfos.
should_descend(floor_info, players) ==
    \E i \in DOMAIN players :
        aabb_collision(player_polygon(players[i]), tile_polygon(exit_pos), ZERO)
descend(map, players) ==
    [map |-> [map EXCEPT !.current_floor_index = @ + 1],
     players |-> [i \in DOMAIN players |-> [players[i] EXCEPT !.pos = spawn]]]
current_floor(map) == map.rooms[map.current_floor_index + 1]

\* ---------------------------------------------------------------------
\* net/mod.rs: handle_requests.  The steps of AdvanceFrame work on a world
\* [players, attacks, floor_info, rng, fired, panicked]: the players and
\* attacks of the GameState, the current floor of its map, the state of the
\* process-wide generator, how often each trap fired in this frame, and
\* whether a step panicked (the later steps then never run).
\* ---------------------------------------------------------------------
\* PlayerInput: rotation, movement angle and the flags
Input(rotation, is_moving, primary, secondary, opening, closing) ==
    [rotation |-> rotation, movement_angle |-> rotation, is_moving |-> is_moving,
     using_primary |-> primary, using_secondary |-> secondary,
     opening_door |-> opening, closing_door |-> closing]

\* the body of the loop over inputs.iter().zip(players)
apply_input(w, i, input) ==
    LET floor == w.floor_info.floor
        turned == [w.players[i] EXCEPT !.angle = input.rotation]
    IN
    With(IF input.is_moving
         THEN move_player(turned, input.movement_angle, -1, floor) ELSE turned,
         LAMBDA moved :
    With(IF input.using_primary THEN player_attack(moved, i, w.attacks, TRUE)
         ELSE [player |-> moved, attacks |-> w.attacks],
         LAMBDA first :
    With(IF input.using_secondary
         THEN player_attack(first.player, i, first.attacks, FALSE)
         ELSE first,
         LAMBDA second :
    With(IF input.opening_door
         THEN interact_with_door(player_polygon(second.player), "Opening",
                                 floor, w.floor_info.monsters)
         ELSE floor,
         LAMBDA opened :
    With(IF input.closing_door
         THEN interact_with_door(player_polygon(second.player), "Closing",
                                 opened, w.floor_info.monsters)
         ELSE opened,
         LAMBDA closed :
        [w EXCEPT !.players[i] = second.player,
                  !.attacks = second.attacks,
                  !.floor_info.floor = closed])))))

RECURSIVE ApplyInputsFrom(_, _, _)
ApplyInputsFrom(w, i, inputs) ==
    IF i > Len(inputs) \/ i > Len(w.players) THEN w
    ELSE ApplyInputsFrom(apply_input(w, i, inputs[i]), i + 1, inputs)

StepInputs(w, inputs) == ApplyInputsFrom(w, 1, inputs)

StepAttacks(w) ==
    With(update_attacks(w.players, w.floor_info.floor, w.floor_info.monsters, w.attacks),
         LAMBDA u : [w EXCEPT !.players = u.players, !.attacks = u.attacks,
                              !.floor_info.monsters = u.monsters])

StepCooldowns(w) == [w EXCEPT !.players = update_cooldowns(@)]

StepTraps(w) ==
    With(trigger_traps(w.players, w.floor_info, w.rng),
         LAMBDA t : [w EXCEPT !.players = t.players, !.floor_info = t.floor_info,
                              !.rng = t.rng, !.fired = t.fired, !.panicked = t.panicked])

StepSetEffects(w) ==
    IF w.panicked THEN w
    ELSE With(set_effects(w.players, w.floor_info),
              LAMBDA e : [w EXCEPT !.players = e.players, !.floor_info = e.floor_info])

StepUpdateEffects(w) ==
    IF w.panicked THEN w ELSE [w EXCEPT !.floor_info.floor = update_effects(@)]

\* ord orders the monsters the frame began with; those a trap added in this
\* frame follow in list order
FullOrder(ord, n) == [k \in 1..n |-> IF k <= Len(ord) THEN ord[k] ELSE k]
StepMonsters(w, ord) ==
    IF w.panicked THEN w
    ELSE With(update_monsters(w.players, w.floor_info, w.attacks, w.rng,
                              FullOrder(ord, Len(w.floor_info.monsters))),
              LAMBDA u : [w EXCEPT !.players = u.players, !.floor_info = u.floor_info,
                                   !.attacks = u.attacks, !.rng = u.rng,
                                   !.panicked = u.panicked])

\* A frame that steps the cooldowns before it applies the inputs.  The
\* code does not do this; the order property below tells the two apart.
advance_frame_cooldowns_first(w, inputs, ord) ==
    StepMonsters(
        StepUpdateEffects(
            StepSetEffects(
                StepTraps(
                    StepAttacks(
                        StepInputs(StepCooldowns(w), inputs))))),
        ord)

\* GGRSRequest::AdvanceFrame, after the frame counter
advance_frame(w, inputs, ord) ==
    StepMonsters(
        StepUpdateEffects(
            StepSetEffects(
                StepTraps(
                    StepCooldowns(
                        StepAttacks(
                            StepInputs(w, inputs)))))),
        ord)

\* ---------------------------------------------------------------------
\* The state: the GameState (frame, players, attacks, map), the GGRS cell,
\* the generator of macroquad::rand (a static of the process, outside the
\* GameState), and whether the process has panicked.  last and memo record
\* the request just handled and, for the state held by the cell, the first
\* frame advanced from it.  call holds the arguments and the result of a
\* function that is run on its own, outside a session (NoCall in a session).
\* ---------------------------------------------------------------------
VARIABLES frame, players, attacks, map, cell, rng, panicked, last, memo, rollbacks, call
vars == <<frame, players, attacks, map, cell, rng, panicked, last, memo, rollbacks, call>>
NoCall == [fn |-> "none"]

MaxFrame == 2
MaxRollbacks == 1

GameState == [frame |-> frame, players |-> players, attacks |-> attacks, map |-> map]

NoFired == [t \in TrapTiles |-> 0]
Request(kind, inputs, ord, fired) ==
    [kind |-> kind, inputs |-> inputs, ord |-> ord, fired |-> fired]

NewFloor == [open_doors |-> {}, triggered |-> {}, effects |-> {}]
NewFloorInfo(monsters) == [floor |-> NewFloor, monsters |-> monsters]
\* Map::new: NUM_FLOORS floors, the first one current
NewMap(first) ==
    [current_floor_index |-> 0,
     rooms |-> [k \in 1..NUM_FLOORS |-> IF k = 1 THEN first ELSE NewFloorInfo(<<>>)]]

Wizard(pos) == NewPlayer("Wizard", pos)
Px(tile_x, tile_y) == Vec(tile_x * TILE_SIZE, tile_y * TILE_SIZE)
East(pos, steps) == Vec(pos.x + steps * PLAYER_SPEED, pos.y)

\* ---------------------------------------------------------------------
\* The states a run starts from: the state init_game leaves, and states of
\* later play that a short run cannot walk to.  Each is a state the game
\* passes through: positions are spawn plus whole steps, timers are values
\* they take while counting.
\* ---------------------------------------------------------------------
Scene(ps, as, floor, monsters) ==
    [players |-> ps, attacks |-> as, floor_info |-> [floor |-> floor, monsters |-> monsters]]

\* a rat that noticed the first player some frames ago
HuntingRat(pos, wait) ==
    [NewRat(pos, wait) EXCEPT !.attack_mode = "Attacking",
                              !.current_target = TargetPlayer(1)]
\* a rat back in passive mode after its lunge
IdleRat(pos) == NewRat(pos, RAT_LUNGE_WAIT - 1)
\* a slime that has seen a player and is ready to throw
AlertSlime(pos) ==
    [NewSlime(pos) EXCEPT !.attack_mode = "Attacking", !.time_til_attack = 1]
Dead(player) == [player EXCEPT !.hp.points = 0]
\* a wizard that has levelled twice and spent its mana
Veteran(pos) ==
    [Wizard(pos) EXCEPT !.level = 2, !.hp.max_points = 22, !.hp.points = 22,
                        !.mp.max_points = 10, !.mp.points = 0, !.mp.time_til_regen = 200]
FlyingSlimeball(pos) ==
    [kind |-> "Slimeball", pos |-> pos, angle |-> WEST, time |-> 8, bounces |-> 0,
     num_piercings |-> 0, player_index |-> -1]
OpenFloor == [open_doors |-> DoorTiles, triggered |-> TrapTiles, effects |-> {}]
\* a stab the player threw east some updates ago, and the player that threw it
FlyingStab(player, index, updates) ==
    [NewAttack("Stab", player_polygon(player), index, EAST) EXCEPT
        !.pos = VAdd(@, DirVec(EAST, updates * STAB_SPEED)), !.time = updates]
Stabber(player, updates) ==
    [player EXCEPT !.secondary_cooldown = STAB_COOLDOWN - updates]

Scenes ==
    << \* the game as it starts: everyone on the spawn point, a rat next door
       Scene(<<Wizard(spawn), Wizard(spawn)>>, <<>>, NewFloor,
             <<NewRat(Px(6, 2), 90)>>),
       \* both players one step from the teleport trap
       Scene(<<Wizard(East(spawn, 10)), Wizard(East(spawn, 10))>>, <<>>, NewFloor,
             <<HuntingRat(Px(6, 2), 20)>>),
       \* a slime within reach of the first player, its slimeball in flight
       Scene(<<Wizard(spawn), Wizard(Vec(1400, 1400))>>,
             <<FlyingSlimeball(Vec(2900, 2600))>>, NewFloor,
             <<AlertSlime(Vec(3300, 2600))>>),
       \* the same fight for a player of level 2 without mana
       Scene(<<Veteran(spawn), Wizard(Vec(1400, 1400))>>, <<>>, NewFloor,
             <<AlertSlime(Vec(3600, 2600))>>),
       \* the first player one step from the exit, a stab of the second in flight
       Scene(<<Wizard(East(spawn, 49)), Stabber(Wizard(spawn), 4)>>,
             <<FlyingStab(Wizard(spawn), 2, 4)>>, OpenFloor, <<>>),
       \* two rats that have killed both players
       Scene(<<Dead(Wizard(spawn)), Dead(Wizard(East(spawn, 2)))>>, <<>>, OpenFloor,
             <<IdleRat(Vec(1500, 2400)), IdleRat(Vec(2000, 2600))>> ),
       \* a rat resting after its lunge at the first player, who has no mana
       Scene(<<Veteran(spawn), Wizard(Vec(1400, 1400))>>, <<>>, NewFloor,
             <<HuntingRat(Vec(3600, 2600), RAT_LUNGE_WAIT - 5)>>) >>

\* srand(1000) and the draws of the floor generation leave the generator in
\* some state; the run starts from this one
RngStart == 1

Init ==
    /\ \E k \in DOMAIN Scenes :
          /\ players = Scenes[k].players
          /\ attacks = Scenes[k].attacks
          /\ map = NewMap(Scenes[k].floor_info)
    /\ frame = 0
    /\ cell = <<>>
    /\ rng = RngStart
    /\ panicked = FALSE
    /\ last = Request("Init", <<>>, <<>>, NoFired)
    /\ memo = <<>>
    /\ rollbacks = 0
    /\ call = NoCall

\* what the players may send in a frame
Idle == Input(EAST, FALSE, FALSE, FALSE, FALSE, FALSE)
\* the first player stands, walks east, or uses both items at once
Inputs1 ==
    { Idle,
      Input(EAST, TRUE, FALSE, FALSE, FALSE, FALSE),
      Input(EAST, FALSE, TRUE, TRUE, FALSE, FALSE) }
Inputs2 == { Idle, Input(EAST, TRUE, FALSE, FALSE, FALSE, FALSE) }

\* input.rs movement_input: the default input when the player it is given
\* is dead.  main.rs gives it players[0] on every peer.
movement_input(player, inputs) == IF player.hp.points = 0 THEN {Idle} ELSE inputs

\* the orders in which n monsters can run
Orders(n) == {f \in [1..n -> 1..n] : \A a, b \in 1..n : f[a] = f[b] => a = b}

World == [players |-> players, attacks |-> attacks, floor_info |-> current_floor(map),
          rng |-> rng, fired |-> NoFired, panicked |-> FALSE]

\* GGRSRequest::SaveGameState: cell.save(frame, Some(game_state.clone()), None)
SaveGameState ==
    /\ ~panicked
    /\ cell # <<GameState>>
    /\ cell' = <<GameState>>
    /\ memo' = <<>>
    /\ last' = Request("Save", <<>>, <<>>, NoFired)
    /\ UNCHANGED <<frame, players, attacks, map, rng, panicked, rollbacks, call>>

\* A load that restores the frame, the players and the map but keeps the
\* live attacks.  The code replaces the whole GameState; the round-trip
\* property below tells the two apart.
LoadGameState_keeps_attacks ==
    /\ ~panicked
    /\ cell # <<>>
    /\ cell # <<GameState>>
    /\ rollbacks < MaxRollbacks
    /\ rollbacks' = rollbacks + 1
    /\ frame' = cell[1].frame
    /\ players' = cell[1].players
    /\ map' = cell[1].map
    /\ last' = Request("Load", <<>>, <<>>, NoFired)
    /\ UNCHANGED <<attacks, cell, rng, panicked, memo, call>>

\* GGRSRequest::LoadGameState: game_state = cell.load().unwrap()
LoadGameState ==
    /\ ~panicked
    /\ cell # <<>>
    /\ cell # <<GameState>>
    /\ rollbacks < MaxRollbacks
    /\ rollbacks' = rollbacks + 1
    /\ frame' = cell[1].frame
    /\ players' = cell[1].players
    /\ attacks' = cell[1].attacks
    /\ map' = cell[1].map
    /\ last' = Request("Load", <<>>, <<>>, NoFired)
    /\ UNCHANGED <<cell, rng, panicked, memo, call>>

\* GGRSRequest::AdvanceFrame { inputs }
AdvanceFrame ==
    /\ ~panicked
    /\ frame < MaxFrame
    /\ \E in1 \in movement_input(players[1], Inputs1),
          in2 \in movement_input(players[1], Inputs2) :
       \E ord \in Orders(Len(current_floor(map).monsters)) :
       \E w \in {advance_frame(World, <<in1, in2>>, ord)} :
       \E after \in {[frame |-> frame + 1, players |-> w.players, attacks |-> w.attacks,
                      map |-> [map EXCEPT !.rooms[map.current_floor_index + 1] =
                                              w.floor_info]]} :
          /\ last' = Request("Advance", <<in1, in2>>, ord, w.fired)
          /\ panicked' = w.panicked
          /\ IF w.panicked
             THEN UNCHANGED <<frame, players, attacks, map, rng, memo>>
             ELSE /\ frame' = after.frame
                  /\ players' = after.players
                  /\ attacks' = after.attacks
                  /\ map' = after.map
                  /\ rng' = w.rng
                  /\ memo' = IF cell = <<GameState>> /\ memo = <<>>
                             THEN <<[inputs |-> <<in1, in2>>, ord |-> ord, result |-> after]>>
                             ELSE memo
          /\ UNCHANGED <<cell, rollbacks, call>>

Next == SaveGameState \/ LoadGameState \/ AdvanceFrame
Spec == Init /\ [][Next]_vars

\* =====================================================================
\* Properties
\* =====================================================================
Monsters == current_floor(map).monsters
Advanced(l, p) == l.kind = "Advance" /\ ~p

\* The seven sub-steps of a frame, in the order of the description, each
\* written with the function of the source that performs it.
FrameInOrder(w, inputs, ord) ==
    With(ApplyInputsFrom(w, 1, inputs), LAMBDA s1 :
    With(update_attacks(s1.players, s1.floor_info.floor, s1.floor_info.monsters,
                        s1.attacks), LAMBDA a :
    With(update_cooldowns(a.players), LAMBDA c :
    With(trigger_traps(c, [s1.floor_info EXCEPT !.monsters = a.monsters], s1.rng),
         LAMBDA t :
    IF t.panicked THEN [panicked |-> TRUE]
    ELSE
    With(set_effects(t.players, t.floor_info), LAMBDA e :
    With([e.floor_info EXCEPT !.floor = update_effects(@)], LAMBDA f :
    With(update_monsters(e.players, f, a.attacks, t.rng, FullOrder(ord, Len(f.monsters))),
         LAMBDA m :
        [players |-> m.players, attacks |-> m.attacks, floor_info |-> m.floor_info,
         rng |-> m.rng, fired |-> t.fired, panicked |-> m.panicked])))))))

\* C1: every AdvanceFrame that completes leaves the state that results from
\* (1) applying every player's input, (2) updating the attacks and dropping
\* the finished ones, (3) stepping cooldowns and regeneration, (4) triggering
\* traps, (5) applying tile effects, (6) stepping the tile-effect timers and
\* (7) updating the monsters, in this order and with none left out; the
\* frame counter goes up by one.
C1_StepOrder ==
    [][Advanced(last', panicked') =>
          \E w \in {FrameInOrder(World, last'.inputs, last'.ord)} :
             /\ ~w.panicked
             /\ frame' = frame + 1
             /\ players' = w.players
             /\ attacks' = w.attacks
             /\ current_floor(map') = w.floor_info
             /\ rng' = w.rng
             /\ last'.fired = w.fired]_vars

\* a frame in which a player attacked, a trap fired and a monster moved
C1_Witness ==
    /\ Advanced(last, panicked)
    /\ last.inputs[1].using_primary
    /\ \E k \in 1..Len(attacks) : attacks[k].kind = "MagicMissile" /\ attacks[k].time = 1
    /\ players[1].primary_cooldown = MISSILE_COOLDOWN - 1
    /\ \E t \in TrapTiles : last.fired[t] > 0
    /\ Monsters # <<>>

\* C2: a frame advanced from the saved state with the inputs (and the
\* monster order) of the first frame advanced from it leaves the GameState
\* that first frame left: the outcome of a frame is a function of the
\* GameState and the inputs alone.
C2_Deterministic ==
    [][(/\ Advanced(last', panicked')
        /\ cell = <<GameState>>
        /\ memo # <<>>
        /\ memo[1].inputs = last'.inputs
        /\ memo[1].ord = last'.ord) => GameState' = memo[1].result]_vars

\* the saved frame replayed after a load, with another outcome
C2_Witness ==
    /\ Advanced(last, panicked)
    /\ rollbacks > 0
    /\ memo # <<>>
    /\ memo[1].inputs = last.inputs
    /\ memo[1].ord = last.ord
    /\ frame = memo[1].result.frame
    /\ GameState # memo[1].result

\* C3: SaveGameState puts a copy of the live GameState into the cell and
\* leaves the live GameState as it is; AdvanceFrame leaves the cell as it
\* is; LoadGameState makes the live GameState (frame, players, attacks,
\* map) equal to the content of the cell, which is the state that was saved.
C3_SaveLoadRoundTrip ==
    [][/\ last'.kind = "Save" => (GameState' = GameState /\ cell' = <<GameState>>)
       /\ last'.kind = "Advance" => cell' = cell
       /\ last'.kind = "Load" => (cell' = cell /\ GameState' = cell[1])]_vars

\* a load that undid a frame which had changed the attack list
C3_Witness ==
    /\ last.kind = "Load"
    /\ memo # <<>>
    /\ GameState = cell[1]
    /\ memo[1].result.frame = frame + 1
    /\ memo[1].result.attacks # attacks
    /\ memo[1].result.players # players

\* C4: when the steps of a frame leave a player on the exit of the current
\* floor, the frame ends with the map cursor on the next floor, every
\* player on the spawn point, and the floor that was left as the steps left
\* it.
C4_DescendsAtExit ==
    [][Advanced(last', panicked') =>
          \E w \in {FrameInOrder(World, last'.inputs, last'.ord)} :
             should_descend(w.floor_info, w.players) =>
                /\ map'.current_floor_index = map.current_floor_index + 1
                /\ \A i \in DOMAIN players' : players'[i].pos = spawn
                /\ map'.rooms[map.current_floor_index + 1] = w.floor_info]_vars

\* a frame has ended with a player on the exit and the cursor where it was
C4_Witness ==
    /\ Advanced(last, panicked)
    /\ last.inputs[1].is_moving
    /\ should_descend(current_floor(map), players)
    /\ map.current_floor_index = 0

\* C5: player_attack, called for any player of a reachable state and either
\* slot, appends at most one attack, and only when the cooldown of the slot
\* is 0 and mp.points covers the mana cost of the attack; when it appends
\* it takes exactly the mana cost from mp.points and sets the cooldown of
\* the slot to the cooldown of the attack; otherwise the attack list, the
\* mana and the cooldown stay as they were; mp.points never goes below 0.
C5_AttackGate ==
    \A i \in DOMAIN players : \A is_primary \in BOOLEAN :
        LET p == players[i]
            r == player_attack(p, i, attacks, is_primary)
            slot(q) == IF is_primary THEN q.primary_cooldown ELSE q.secondary_cooldown
            added == r.attacks[Len(r.attacks)]
        IN  /\ r.player.mp.points >= 0
            /\ IF r.attacks # attacks
               THEN /\ r.attacks = Append(attacks, added)
                    /\ slot(p) = 0
                    /\ p.mp.points >= mana_cost(added)
                    /\ r.player.mp.points = p.mp.points - mana_cost(added)
                    /\ slot(r.player) = cooldown(added)
               ELSE /\ r.player.mp.points = p.mp.points
                    /\ slot(r.player) = slot(p)

\* a frame in which a player without mana used both items: the stab went
\* out, the missile did not
C5_Witness ==
    /\ Advanced(last, panicked)
    /\ last.inputs[1].using_primary /\ last.inputs[1].using_secondary
    /\ players[1].mp.points < MISSILE_MANA_COST
    /\ players[1].primary_cooldown = 0
    /\ players[1].secondary_cooldown = STAB_COOLDOWN - 1
    /\ \E k \in 1..Len(attacks) : attacks[k].kind = "Stab" /\ attacks[k].player_index = 1
    /\ \A k \in 1..Len(attacks) : attacks[k].kind # "MagicMissile"

\* C6: in every completed frame every enchantment a player holds loses one
\* frame of its remaining time, and is gone when that time reaches zero.
C6_EnchantmentsTick ==
    [][Advanced(last', panicked') =>
          \A i \in DOMAIN players : \A e \in players[i].enchantments :
             IF e.time > 1
             THEN [e EXCEPT !.time = @ - 1] \in players'[i].enchantments
             ELSE ~HasEnchantment(players'[i].enchantments, e.kind)]_vars

\* a player that was Sticky when the state was saved is as Sticky one
\* completed frame later
C6_Witness ==
    /\ Advanced(last, panicked)
    /\ cell # <<>>
    /\ frame = cell[1].frame + 1
    /\ \E i \in DOMAIN players : \E e \in players[i].enchantments :
          e.kind = "Sticky" /\ e \in cell[1].players[i].enchantments

\* C7: in a frame no trap applies its effect more than once, and a trap
\* whose triggered flag is set applies no effect and keeps the flag.
C7_TrapOneShot ==
    [][last'.kind = "Advance" =>
          \A t \in TrapTiles :
             /\ last'.fired[t] <= 1
             /\ t \in current_floor(map).floor.triggered =>
                   (last'.fired[t] = 0 /\ t \in current_floor(map').floor.triggered)]_vars

\* a frame in which one trap teleported both players
C7_Witness ==
    /\ Advanced(last, panicked)
    /\ \E t \in TrapTiles :
          /\ last.fired[t] = 2
          /\ t \in current_floor(map).floor.triggered
          /\ \A i \in DOMAIN players :
                pos_to_tile(player_polygon(players[i])) # Layout[t].pos

\* the world as the first six steps of a frame leave it
BeforeMonsters(w, inputs) ==
    StepUpdateEffects(StepSetEffects(StepTraps(StepCooldowns(StepAttacks(
        StepInputs(w, inputs))))))
\* the players after every dead monster of the list, from the k-th on, has
\* paid its XP once to every player of its damaged_by
RECURSIVE PayDead(_, _, _)
PayDead(ps, monsters, k) ==
    IF k > Len(monsters) THEN ps
    ELSE IF monsters[k].health > 0 THEN PayDead(ps, monsters, k + 1)
    ELSE PayDead([i \in DOMAIN ps |->
                     IF i \in monsters[k].damaged_by THEN add_xp(ps[i], xp(monsters[k]))
                     ELSE ps[i]],
                 monsters, k + 1)

\* C8: when update_monsters starts with monsters of health 0 in the list,
\* it completes; afterwards those monsters are gone, no monster of health 0
\* is in the list, and the XP and level of every player are what one
\* payment of each dead monster's XP to each player of its damaged_by
\* gives (nothing for the players outside damaged_by).
C8_DeadMonstersPayXp ==
    [][last'.kind = "Advance" =>
          \E pre \in {BeforeMonsters(World, last'.inputs)} :
             (~pre.panicked /\ \E k \in 1..Len(pre.floor_info.monsters) :
                                  pre.floor_info.monsters[k].health = 0) =>
             \E u \in {update_monsters(pre.players, pre.floor_info, pre.attacks, pre.rng,
                                       FullOrder(last'.ord, Len(pre.floor_info.monsters)))} :
             \E paid \in {PayDead(pre.players, pre.floor_info.monsters, 1)} :
                /\ ~u.panicked
                /\ Len(u.floor_info.monsters) =
                      Cardinality({k \in 1..Len(pre.floor_info.monsters) :
                                      pre.floor_info.monsters[k].health > 0})
                /\ \A k \in 1..Len(u.floor_info.monsters) :
                      u.floor_info.monsters[k].health > 0
                /\ \A i \in DOMAIN paid :
                      /\ u.players[i].xp = paid[i].xp
                      /\ u.players[i].level = paid[i].level]_vars

\* the frame stopped in update_monsters with a player of level 2 whose
\* stab was about to reach a slime
C8_Witness ==
    /\ last.kind = "Advance" /\ panicked
    /\ players[1].level >= 2
    /\ \E j \in 1..Len(attacks) : attacks[j].kind = "Stab" /\ attacks[j].player_index = 1
    /\ \E k \in 1..Len(Monsters) :
          Monsters[k].kind = "GreenSlime" /\ Monsters[k].health <= STAB_DAMAGE

\* C9: the monsters a completed frame leaves are the monsters it leaves
\* when the movement phase runs them one after the other in list order,
\* whatever the order in which the movement phase did run them.
C9_OrderIndependent ==
    [][Advanced(last', panicked') =>
          \E w \in {FrameInOrder(World, last'.inputs, <<>>)} :
             /\ ~w.panicked
             /\ current_floor(map').monsters = w.floor_info.monsters]_vars

\* a state whose two monsters come out of the movement phase differently
\* when the second of the list moves first
C9_Witness ==
    /\ Len(Monsters) = 2
    /\ ~panicked
    /\ MoveInOrder(Monsters, <<1, 2>>, 1, players, current_floor(map).floor, rng).monsters
          # MoveInOrder(Monsters, <<2, 1>>, 1, players, current_floor(map).floor,
                        rng).monsters

\* C10: a Stab in the attack list has had fewer than 6 updates.  Its next
\* update leaves the players alone and changes at most one monster, the
\* first of the list it touches after its move; the health of that monster
\* goes down by 25 or, when it has less, to 0, and the update returns true.
\* An update that brings the time of the stab to 6 returns true and damages
\* no monster; any other update either returns true or adds one to the time.
C10_StabLifecycle ==
    \A j \in 1..Len(attacks) :
        attacks[j].kind = "Stab" =>
            LET a == attacks[j]
                r == stab_update(a, current_floor(map).floor, Monsters, players)
                changed == {k \in 1..Len(Monsters) : r.monsters[k] # Monsters[k]}
            IN  /\ a.time < STAB_LIFETIME
                /\ r.players = players
                /\ Len(r.monsters) = Len(Monsters)
                /\ r.done \/ r.attack.time = a.time + 1
                /\ r.attack.time >= STAB_LIFETIME => (r.done /\ changed = {})
                /\ Cardinality(changed) <= 1
                /\ \A k \in changed :
                      /\ r.done
                      /\ k = FirstMonsterHit(Monsters, attack_polygon(r.attack))
                      /\ r.monsters[k].health = Max(0, Monsters[k].health - STAB_DAMAGE)

\* a frame in which the stab of the first player hit a rat of full health
\* and was destroyed
C10_Witness ==
    /\ Advanced(last, panicked)
    /\ \A j \in 1..Len(attacks) : attacks[j].kind # "Stab"
    /\ players[1].secondary_cooldown = STAB_COOLDOWN - 2
    /\ \E k \in 1..Len(Monsters) :
          /\ Monsters[k].kind = "SmallRat"
          /\ Monsters[k].health = RAT_MAX_HEALTH - STAB_DAMAGE
          /\ Monsters[k].damaged_by = {1}

\* C10 as it was stated: the update of a Stab that damages a monster takes
\* exactly 25 from the health of exactly one monster.
C10_ExactDamage ==
    \A j \in 1..Len(attacks) :
        attacks[j].kind = "Stab" =>
            LET r == stab_update(attacks[j], current_floor(map).floor, Monsters, players)
                changed == {k \in 1..Len(Monsters) : r.monsters[k] # Monsters[k]}
            IN  /\ Cardinality(changed) <= 1
                /\ \A k \in changed :
                      r.done /\ r.monsters[k].health + STAB_DAMAGE = Monsters[k].health

\* =====================================================================
\* attacks/mod.rs update_attacks on its own: attacks that were just created
\* are updated again and again, while the rest of the game moves players
\* and monsters and opens and closes doors between two updates.  call
\* holds the attacks as they were created, the number of updates since and
\* how often the surroundings changed.
\* =====================================================================
MaxChanges == 1
DIAGONAL == Angle(3, 4)
Caster == Wizard(spawn)
Thrower == NewSlime(Vec(3300, 2600))
CreatedAttacks ==
    {<<NewAttack("Slash", player_polygon(Caster), 1, a)>> : a \in {EAST, SOUTH}}
    \cup {<<NewAttack("MagicMissile", player_polygon(Caster), 1, a)>> :
             a \in {EAST, DIAGONAL}}
    \cup {<<NewBlindingLight(Caster, 1, a)>> : a \in {EAST}}
    \cup {<<NewAttack("Slimeball", monster_polygon(Thrower), -1, a)>> : a \in {WEST, NORTH}}
    \cup {<<NewAttack("Slash", player_polygon(Caster), 1, EAST),
            NewAttack("Slimeball", monster_polygon(Thrower), -1, WEST)>>}

\* what the rest of a frame may leave: players, doors and monsters
Surroundings ==
    { Scene(<<Caster, Wizard(Vec(1400, 1400))>>, <<>>, NewFloor, <<>>),
      Scene(<<Caster, Wizard(Vec(1400, 1400))>>, <<>>, OpenFloor,
            <<Thrower, NewRat(Px(6, 2), 90)>>),
      Scene(<<Wizard(Vec(1400, 1400)), Wizard(Vec(3400, 2600))>>, <<>>, NewFloor,
            <<NewRat(Vec(3100, 2700), 90), NewSlime(Vec(2700, 3300))>>) }

LifetimeInit ==
    /\ \E created \in CreatedAttacks :
          /\ attacks = created
          /\ call = [fn |-> "update_attacks", created |-> created, updates |-> 0,
                     changes |-> 0]
    /\ \E s \in Surroundings :
          /\ players = s.players
          /\ map = NewMap(s.floor_info)
    /\ frame = 0
    /\ cell = <<>>
    /\ rng = RngStart
    /\ panicked = FALSE
    /\ last = Request("Init", <<>>, <<>>, NoFired)
    /\ memo = <<>>
    /\ rollbacks = 0

\* update_attacks(players, floor, attacks)
UpdateAttacks ==
    /\ call.fn = "update_attacks"
    /\ attacks # <<>>
    /\ With(update_attacks(players, current_floor(map).floor, current_floor(map).monsters,
                           attacks),
            LAMBDA r :
               /\ attacks' = r.attacks
               /\ players' = r.players
               /\ map' = [map EXCEPT !.rooms[map.current_floor_index + 1].monsters =
                                         r.monsters])
    /\ call' = [call EXCEPT !.updates = @ + 1]
    /\ UNCHANGED <<frame, cell, rng, panicked, last, memo, rollbacks>>

\* the other steps of frames: players and monsters move, doors open and close
RestOfFrame ==
    /\ call.fn = "update_attacks"
    /\ attacks # <<>>
    /\ call.changes < MaxChanges
    /\ \E s \in Surroundings :
          /\ players' = s.players
          /\ map' = NewMap(s.floor_info)
    /\ call' = [call EXCEPT !.changes = @ + 1]
    /\ UNCHANGED <<frame, attacks, cell, rng, panicked, last, memo, rollbacks>>

LifetimeNext == UpdateAttacks \/ RestOfFrame
LifetimeSpec == LifetimeInit /\ [][LifetimeNext]_vars

C11_Limit(kind) ==
    IF kind = "Slash" THEN 10
    ELSE IF kind = "Slimeball" THEN 30
    ELSE 60
\* the attacks a call of update_attacks must leave: those whose update
\* returned false, in their order, each update seeing what the one before
\* it left (the lists here have one or two attacks)
C11_Kept ==
    LET floor == current_floor(map).floor
        first == update(attacks[1], floor, Monsters, players)
        second == update(attacks[2], floor, first.monsters, first.players)
    IN  (IF first.done THEN <<>> ELSE <<first.attack>>)
        \o (IF Len(attacks) < 2 \/ second.done THEN <<>> ELSE <<second.attack>>)

\* C11: an attack that is still in the list has had fewer updates since its
\* creation than the limit of its kind: 10 for a Slash, 60 for a MagicMissile
\* and for a BlindingLight, 30 for a Slimeball, whatever players, monsters
\* and doors do in between.  A call of update_attacks removes exactly the
\* attacks whose update returned true.
C11_Lifetime ==
    /\ [](call.fn = "update_attacks" =>
             \A k \in DOMAIN attacks : call.updates < C11_Limit(attacks[k].kind))
    /\ [][(call.fn = "update_attacks" /\ call'.updates = call.updates + 1)
             => attacks' = C11_Kept]_vars

\* a MagicMissile that was alone in the list, was still in it after 59
\* updates, and was removed by the 60th
C11_Witness ==
    /\ call.fn = "update_attacks"
    /\ Len(call.created) = 1
    /\ call.created[1].kind = "MagicMissile"
    /\ call.updates = MISSILE_LIFETIME
    /\ attacks = <<>>

RECURSIVE C12_Power(_, _)
C12_Power(b, e) == IF e = 0 THEN 1 ELSE b * C12_Power(b, e - 1)
\* the missile of a list of one after the wall test of its next update
C12_Bounced == missile_wall_bounce(attacks[1], current_floor(map).floor).attack
C12_Touched == FirstMonsterHit(Monsters, attack_polygon(C12_Bounced))

\* C12: the update of a MagicMissile that touches a monster hands to
\* take_damage of that monster, the first of the list it touches, the
\* damage BASE_DAMAGE^(1 + bounces), bounces being the count of the missile
\* after the wall test of this update, a number from 0 to 3; the power is
\* below 65536.  No other monster changes.
C12_MissileDamage ==
    [][(/\ call.fn = "update_attacks"
        /\ call'.updates = call.updates + 1
        /\ Len(attacks) = 1
        /\ attacks[1].kind = "MagicMissile")
       => LET a1 == C12_Bounced
              k == C12_Touched
              damage == C12_Power(MISSILE_BASE_DAMAGE, 1 + a1.bounces)
          IN  /\ a1.bounces \in 0..3
              /\ damage < 65536
              /\ current_floor(map').monsters =
                    IF k = 0 THEN Monsters
                    ELSE [Monsters EXCEPT ![k] =
                             take_damage(@, [damage |-> damage,
                                             direction |-> get_angle(Monsters[k].pos, a1.pos),
                                             player |-> a1.player_index],
                                         current_floor(map).floor)]]_vars

\* a missile that bounced off the walls at least twice has just touched a
\* slime of full health: the slime lost one point, and the missile, turned
\* round, is one step away from where it touched it
C12_Witness ==
    /\ call.fn = "update_attacks"
    /\ Len(attacks) = 1
    /\ attacks[1].kind = "MagicMissile"
    /\ attacks[1].bounces = MISSILE_MAX_BOUNCES
    /\ \E k \in 1..Len(Monsters) :
          /\ Monsters[k].kind = "GreenSlime"
          /\ Monsters[k].health = SLIME_MAX_HEALTH - 1
          /\ Monsters[k].damaged_by = {1}
          /\ aabb_collision(
                attack_polygon([attacks[1] EXCEPT
                    !.pos = VSub(@, DirVec(attacks[1].angle, MISSILE_SPEED))]),
                monster_polygon(Monsters[k]), ZERO)

\* =====================================================================
\* player.rs update_enchantments on its own: a player takes the
\* Regenerating enchantment (items.rs use_item) and update_enchantments is
\* called on them again and again.  call holds the strength, the health
\* at the start, the number of calls so far and the calls that healed.
\* =====================================================================
\* the parts of the state a function that is run on its own leaves alone
Outside ==
    /\ frame = 0
    /\ cell = <<>>
    /\ rng = RngStart
    /\ panicked = FALSE
    /\ last = Request("Init", <<>>, <<>>, NoFired)
    /\ memo = <<>>
    /\ rollbacks = 0
Strengths == {1, 2, 7}
\* calls made after the enchantment has run out
MaxCallsAfter == 4
Patient(hp) == [Wizard(spawn) EXCEPT !.hp.points = hp]

RegenInit ==
    /\ \E S \in Strengths, hp \in {1, 15, 19, 20} :
          /\ players = <<player_apply_enchantment(Patient(hp), "Regenerating", S)>>
          /\ call = [fn |-> "update_enchantments", strength |-> S, hp |-> hp,
                     calls |-> 0, healed |-> {}]
    /\ attacks = <<>>
    /\ map = NewMap(NewFloorInfo(<<>>))
    /\ Outside

\* player.update_enchantments()
UpdateEnchantments ==
    /\ call.fn = "update_enchantments"
    /\ call.calls < ENCHANT_TIME_REGENERATING + MaxCallsAfter
    /\ players' = <<player_update_enchantments(players[1])>>
    /\ call' = [call EXCEPT !.calls = @ + 1,
                            !.healed = IF players'[1].hp.points > players[1].hp.points
                                       THEN @ \cup {call.calls + 1} ELSE @]
    /\ UNCHANGED <<frame, attacks, map, cell, rng, panicked, last, memo, rollbacks>>

RegenNext == UpdateEnchantments
RegenSpec == RegenInit /\ [][RegenNext]_vars

\* the calls among the first n that come period calls after one another,
\* the first call among them
C13_Every(period, n) ==
    {c \in 1..Min(n, ENCHANT_TIME_REGENERATING) :
        (ENCHANT_TIME_REGENERATING - (c - 1)) % period = 0}
\* the first count numbers of a set
C13_First(set, count) == {c \in set : Cardinality({d \in set : d < c}) < count}
C13_Gains(period) ==
    call.fn = "update_enchantments" =>
        /\ call.healed =
              C13_First(C13_Every(period, call.calls),
                        players[1].hp.max_points - call.hp)
        /\ players[1].hp.points = call.hp + Cardinality(call.healed)

\* C13: a player with a Regenerating enchantment of strength S (1, 2 or 7
\* here) gains one point of health in the call of update_enchantments in
\* which the frames the enchantment has left are a multiple of 60 / S
\* (rounded down): the first call and every (60 / S)-th call after it, as
\* long as the health is below max_points.  The health never exceeds
\* max_points, the enchantment is gone after 480 calls, and later calls
\* leave the health alone.
C13_Regeneration ==
    /\ C13_Gains(60 \div call.strength)
    /\ call.fn = "update_enchantments" =>
          /\ players[1].hp.points <= players[1].hp.max_points
          /\ HasEnchantment(players[1].enchantments, "Regenerating")
                <=> call.calls < ENCHANT_TIME_REGENERATING

\* a player that started with 15 of 20 points and strength 2 has been
\* healed to 20 by five calls 30 calls apart, and the enchantment ran out
C13_Witness ==
    /\ call.fn = "update_enchantments"
    /\ call.strength = 2 /\ call.hp = 15
    /\ call.healed = {1, 31, 61, 91, 121}
    /\ players[1].hp.points = players[1].hp.max_points
    /\ call.calls > ENCHANT_TIME_REGENERATING

\* C13 as it was stated: the player gains one point of health every 30 / S
\* calls.
C13_Every30 == C13_Gains(30 \div call.strength)

\* =====================================================================
\* map.rs find_path on its own: something on one tile of the floor asks
\* for the way to another tile.  call holds the two tiles, the flags and,
\* once the function has returned, the result (<<>> for None).
\* =====================================================================
PathInit ==
    /\ \E s \in TileIdx, g \in TileIdx, v \in BOOLEAN, d \in BOOLEAN :
          call = [fn |-> "find_path", start |-> TilePos(s), goal |-> TilePos(g),
                  only_visible |-> v, ignore_door_collision |-> d,
                  returned |-> FALSE, result |-> <<>>]
    /\ \E floor \in {NewFloor, OpenFloor} :
          map = NewMap([floor |-> floor, monsters |-> <<>>])
    /\ players = <<>>
    /\ attacks = <<>>
    /\ Outside

\* floor.find_path(pos, goal, only_visible, ignore_door_collision, None)
FindPath ==
    /\ call.fn = "find_path"
    /\ ~call.returned
    /\ call' = [call EXCEPT
                   !.returned = TRUE,
                   !.result = find_path(current_floor(map).floor, tile_polygon(call.start),
                                        tile_polygon(call.goal), call.only_visible,
                                        call.ignore_door_collision)]
    /\ UNCHANGED <<frame, players, attacks, map, cell, rng, panicked, last, memo, rollbacks>>

PathNext == FindPath
PathSpec == PathInit /\ [][PathNext]_vars

\* the tiles of the straight line from the start to the goal, both
\* included, when the two lie in one row or one column
C14_Line ==
    LET s == call.start
        g == call.goal
        n == Abs(g.x - s.x) + Abs(g.y - s.y)
    IN  [k \in 1..(n + 1) |->
            Vec(s.x + (k - 1) * Signum(g.x - s.x), s.y + (k - 1) * Signum(g.y - s.y))]
\* start and goal are the ends of a straight corridor of at least two
\* tiles, none of which is collidable
C14_Corridor ==
    /\ call.fn = "find_path"
    /\ call.returned
    /\ call.start # call.goal
    /\ call.start.x = call.goal.x \/ call.start.y = call.goal.y
    /\ \A k \in DOMAIN C14_Line :
          ~is_collidable(current_floor(map).floor, get_object_from_pos(C14_Line[k]))
C14_Corner(tile) == Vec(tile.x * TILE_SIZE, tile.y * TILE_SIZE)

\* C14: on a straight corridor of N tiles without obstacle from the start
\* tile to the goal tile, find_path returns N way-points: the corner of
\* the start tile first, then the corner of each tile of the corridor in
\* turn, each one tile closer to the goal, the corner of the goal tile last.
C14_StraightPath ==
    C14_Corridor =>
        /\ Len(call.result) = Len(C14_Line)
        /\ \A k \in DOMAIN C14_Line : call.result[k] = C14_Corner(C14_Line[k])

\* the way through the open door from the west room to the east room
C14_Witness ==
    /\ C14_Corridor
    /\ call.start = Vec(1, 2)
    /\ call.goal = Vec(7, 2)
    /\ Len(call.result) = 7
    /\ call.result[1] = C14_Corner(call.start)
    /\ call.result[7] = C14_Corner(call.goal)

\* C14 as it was stated: the result has N - 1 way-points, the tile after
\* the start first and the goal tile last.
C14_WithoutStart ==
    C14_Corridor =>
        /\ Len(call.result) = Len(C14_Line) - 1
        /\ \A k \in DOMAIN call.result : call.result[k] = C14_Corner(C14_Line[k + 1])

\* the goal is a tile nothing can stand on and no door
C15_WalledGoal ==
    /\ call.fn = "find_path"
    /\ call.returned
    /\ is_collidable(current_floor(map).floor, get_object_from_pos(call.goal))
    /\ ~Layout[get_object_from_pos(call.goal)].has_door

\* C15: find_path returns None when the tile of the goal is collidable and
\* not a door and the start is on another tile, whatever the two flags are.
C15_NoPathIntoWall ==
    (C15_WalledGoal /\ call.start # call.goal) => call.result = <<>>

\* no way from the middle of the west room to the wall east of it, doors
\* ignored
C15_Witness ==
    /\ C15_WalledGoal
    /\ call.start = Vec(2, 2)
    /\ call.goal = Vec(4, 1)
    /\ call.ignore_door_collision
    /\ call.result = <<>>

\* C15 as it was stated: None for every start tile, the goal tile itself
\* included.
C15_EveryStart == C15_WalledGoal => call.result = <<>>

\* =====================================================================
\* math.rs aabb_collision on its own: two rectangles, given by corner and
\* size in whole pixels and by a rotation, and an offset in whole pixels.
\* call holds them and, once the function has returned, the result.
\* =====================================================================
Rect(x, y, w, h, rotation) == [x |-> x, y |-> y, w |-> w, h |-> h, rotation |-> rotation]
\* the AsPolygon of an object of that position and size
rect_polygon(r) ==
    easy_polygon(Vec((r.x * PX) + ((r.w * PX) \div 2), (r.y * PX) + ((r.h * PX) \div 2)),
                 Vec((r.w * PX) \div 2, (r.h * PX) \div 2), r.rotation)
FirstRects ==
    {Rect(x, y, w, h, a) : x \in {0, 5}, y \in {0, 5}, w \in {4, 10}, h \in {4, 10},
                           a \in {EAST, DIAGONAL}}
SecondRects ==
    {Rect(x, y, w, h, EAST) : x \in {0, 2, 5, 20}, y \in {0, 2, 5, 20}, w \in {4, 10},
                              h \in {4, 10}}
Offsets == {Vec(0, 0), Vec(3, -7), Vec(-12, 0)}

CollisionInit ==
    /\ \E a \in FirstRects, b \in SecondRects, d \in Offsets :
          call = [fn |-> "aabb_collision", poly1 |-> a, poly2 |-> b,
                  distance |-> Vec(d.x * PX, d.y * PX), returned |-> FALSE,
                  result |-> FALSE]
    /\ map = NewMap(NewFloorInfo(<<>>))
    /\ players = <<>>
    /\ attacks = <<>>
    /\ Outside

\* aabb_collision(&poly1, &poly2, distance)
Collide ==
    /\ call.fn = "aabb_collision"
    /\ ~call.returned
    /\ call' = [call EXCEPT
                   !.returned = TRUE,
                   !.result = aabb_collision(rect_polygon(call.poly1),
                                             rect_polygon(call.poly2), call.distance)]
    /\ UNCHANGED <<frame, players, attacks, map, cell, rng, panicked, last, memo, rollbacks>>

CollisionNext == Collide
CollisionSpec == CollisionInit /\ [][CollisionNext]_vars

\* C16: aabb_collision(A, B, d) is aabb_collision(B, A, -d).
C16_Symmetry ==
    (call.fn = "aabb_collision" /\ call.returned) =>
        call.result = aabb_collision(rect_polygon(call.poly2), rect_polygon(call.poly1),
                                     Vec(-call.distance.x, -call.distance.y))

\* a turned rectangle that the offset moves across the other one
C16_Witness ==
    /\ call.fn = "aabb_collision"
    /\ call.returned
    /\ call.poly1.rotation = DIAGONAL
    /\ call.distance # ZERO
    /\ call.result
    /\ ~aabb_collision(rect_polygon(call.poly1), rect_polygon(call.poly2), ZERO)

C17_Overlap(a, b) ==
    /\ a.x < b.x + b.w /\ b.x < a.x + a.w
    /\ a.y < b.y + b.h /\ b.y < a.y + a.h
C17_Inside(a, b) ==
    /\ b.x < a.x /\ a.x + a.w < b.x + b.w
    /\ b.y < a.y /\ a.y + a.h < b.y + b.h
C17_Case ==
    /\ call.fn = "aabb_collision"
    /\ call.returned
    /\ call.poly1.rotation = EAST
    /\ call.poly2.rotation = EAST
    /\ call.distance = ZERO

\* C17: for two rectangles that are not turned and an offset of zero,
\* aabb_collision is true exactly when the x-intervals and the y-intervals
\* of the two overlap.
C17_IntervalOverlap ==
    C17_Case => (call.result <=> C17_Overlap(call.poly1, call.poly2))

\* a rectangle of 4 by 4 pixels at (2, 2) lies inside the one of 10 by 10
\* at (0, 0), and no collision is reported
C17_Witness ==
    /\ C17_Case
    /\ call.poly1 = Rect(0, 0, 10, 10, EAST)
    /\ call.poly2 = Rect(2, 2, 4, 4, EAST)
    /\ ~call.result

\* =====================================================================
\* map.rs FloorInfo::new on its own.  The rooms the first loop has pushed
\* and every later draw of the generator (the room a hallway leads to, the
\* rooms of the spawn point and of the exit, the rats) are inputs; traps
\* and items, which are drawn per floor tile, are left out of the objects.
\* The rooms are smaller than those of the code, as the floor is.  call
\* holds the rooms and, once the function has returned or panicked, what
\* it left.
\* =====================================================================
MIN_DISTANCE_BETWEEN_ROOMS == 2
\* gen_range(MIN_SIZE, MAX_SIZE): the sides of a room
RoomMinSize == 2
RoomMaxSize == 4
MaxRats == 1
\* generator values that make choose give the first and the second of two
\* rooms
RoomDraws == {0, RngMod \div 2}

NewRoom(top_left, bottom_right) ==
    [top_left |-> top_left, bottom_right |-> bottom_right, doors |-> {}]
\* the test that keeps a new room two tiles away from a room pushed before
too_close(room, top_left, bottom_right) ==
    /\ room.bottom_right.x + MIN_DISTANCE_BETWEEN_ROOMS
          > top_left.x - MIN_DISTANCE_BETWEEN_ROOMS
    /\ room.bottom_right.y + MIN_DISTANCE_BETWEEN_ROOMS
          > top_left.y - MIN_DISTANCE_BETWEEN_ROOMS
    /\ bottom_right.x + MIN_DISTANCE_BETWEEN_ROOMS
          > room.top_left.x - MIN_DISTANCE_BETWEEN_ROOMS
    /\ bottom_right.y + MIN_DISTANCE_BETWEEN_ROOMS
          > room.top_left.y - MIN_DISTANCE_BETWEEN_ROOMS
\* the rooms one pass of the loop can draw and keep on an empty floor
DrawnRooms ==
    {NewRoom(Vec(x, y), Vec(x + w, y + h)) :
        x \in 0..(MapW - 1), y \in {0, 1},
        w \in RoomMinSize..(RoomMaxSize - 1), h \in RoomMinSize..(RoomMaxSize - 1)}
KeptRooms == {r \in DrawnRooms : r.bottom_right.x <= MapW /\ r.bottom_right.y <= MapH}
\* the lists the loop and the shuffle can leave
RoomLists ==
    {<<>>} \cup {<<r>> : r \in KeptRooms}
    \cup {pair \in {<<r, q>> : r \in KeptRooms, q \in KeptRooms} :
             ~too_close(pair[1], pair[2].top_left, pair[2].bottom_right)}

\* Room::generate_walls
generate_walls(room) ==
    LET tl == room.top_left
        br == room.bottom_right
    IN  [k \in 1..(2 * (br.x - tl.x)) |->
            Vec(tl.x + ((k - 1) \div 2), IF k % 2 = 1 THEN tl.y ELSE br.y)]
        \o [k \in 1..(2 * (br.y - tl.y + 1)) |->
               Vec(IF k % 2 = 1 THEN tl.x ELSE br.x, tl.y + ((k - 1) \div 2))]

center_touching_wall(room, c) ==
    \/ c.x = room.top_left.x \/ c.y = room.top_left.y
    \/ c.x = room.bottom_right.x \/ c.y = room.bottom_right.y
\* the (-2..=2).find_map of the hallway closure: <<point>> or <<>>
moved_center(rooms, c) ==
    LET offer(change) ==
            LET by_x == Vec(c.x + change, c.y)
                by_y == Vec(c.x, c.y + change)
                takers == {k \in 1..Len(rooms) :
                              \/ ~center_touching_wall(rooms[k], by_x)
                              \/ ~center_touching_wall(rooms[k], by_y)}
                first == CHOOSE k \in takers : \A j \in takers : k <= j
            IN  IF takers = {} THEN <<>>
                ELSE IF ~center_touching_wall(rooms[first], by_x) THEN <<by_x>>
                ELSE <<by_y>>
        changes == {ch \in -2..2 : offer(ch) # <<>>}
    IN  IF changes = {} THEN <<>>
        ELSE offer(CHOOSE ch \in changes : \A other \in changes : ch <= other)
hallway_end(rooms, c) ==
    IF \E k \in 1..Len(rooms) : center_touching_wall(rooms[k], c)
    THEN moved_center(rooms, c) ELSE <<c>>
\* the closure of the flat_map over the rooms: the tiles of the hallway
\* from a room to other_room, none when an end cannot be moved off a wall
hallway(rooms, room, other_room) ==
    LET room_center == center(room)
        other_room_center == center(other_room)
        left == hallway_end(rooms, IF room_center.x < other_room_center.x
                                   THEN room_center ELSE other_room_center)
        right == hallway_end(rooms, IF room_center.x < other_room_center.x
                                    THEN other_room_center ELSE room_center)
    IN  IF left = <<>> \/ right = <<>> THEN <<>>
        ELSE LET l == left[1]
                 r == right[1]
                 across == IF r.x < l.x THEN 0 ELSE r.x - l.x + 1
             IN  [k \in 1..across |-> Vec(l.x + k - 1, l.y)]
                 \o [k \in 1..(Max(l.y, r.y) - Min(l.y, r.y) + 2) |->
                        Vec(r.x, Min(l.y, r.y) - 2 + k)]
RECURSIVE HallwaysFrom(_, _, _)
HallwaysFrom(rooms, others, k) ==
    IF k > Len(rooms) THEN <<>>
    ELSE hallway(rooms, rooms[k], rooms[others[k]]) \o HallwaysFrom(rooms, others, k + 1)

InSeq(seq, e) == \E k \in 1..Len(seq) : seq[k] = e
\* the doors a room gets: its walls that a hallway crosses, corners excepted
with_doors(room, hallways) ==
    [room EXCEPT !.doors =
        {w \in {generate_walls(room)[k] : k \in 1..Len(generate_walls(room))} :
            /\ InSeq(hallways, w)
            /\ w # room.top_left
            /\ w # room.bottom_right
            /\ w # Vec(room.bottom_right.x, room.top_left.y)
            /\ w # Vec(room.top_left.x, room.bottom_right.y)}]

NewObject(pos, is_floor, door) == [pos |-> pos, is_floor |-> is_floor, door |-> door]
\* the walls round the floor: the chain of the side walls is inside the
\* closure over x, so they come once for every column
border_walls ==
    LET column(x) ==
            <<NewObject(Vec(x, 0), FALSE, FALSE), NewObject(Vec(x, MapH), FALSE, FALSE)>>
            \o [k \in 1..(2 * (MapH + 1)) |->
                   NewObject(Vec(IF k % 2 = 1 THEN 0 ELSE MapW, (k - 1) \div 2),
                             FALSE, FALSE)]
        per_column == Len(column(0))
    IN  [k \in 1..(MapW * per_column) |->
            column((k - 1) \div per_column)[((k - 1) % per_column) + 1]]
generate_wall_objects(room) ==
    [k \in 1..Len(generate_walls(room)) |->
        NewObject(generate_walls(room)[k], FALSE, generate_walls(room)[k] \in room.doors)]
generate_floor(room) ==
    LET w == room.bottom_right.x - room.top_left.x
        h == room.bottom_right.y - room.top_left.y
    IN  [k \in 1..(w * h) |->
            NewObject(Vec(room.top_left.x + ((k - 1) \div h),
                          room.top_left.y + ((k - 1) % h)), TRUE, FALSE)]
RECURSIVE FlatMap(_, _, _)
FlatMap(F(_), seq, k) ==
    IF k > Len(seq) THEN <<>> ELSE F(seq[k]) \o FlatMap(F, seq, k + 1)
dungeon_walls(rooms, hallways) ==
    LET all == [k \in 1..(MapW * MapH) |-> Vec((k - 1) \div MapH, (k - 1) % MapH)]
        walls == SelectSeq(all, LAMBDA pos :
                     /\ ~\E r \in 1..Len(rooms) : inside_room(rooms[r], pos)
                     /\ ~InSeq(hallways, pos))
    IN  [k \in 1..Len(walls) |-> NewObject(walls[k], FALSE, FALSE)]

\* rooms.choose().unwrap() panics when no room is left
choose_panics(rooms) == rooms = <<>>

\* the writes into the vector of Options and the fill of the entries no
\* object went to; objects is indexed from 0
place_objects(writes) ==
    LET index == [k \in 1..Len(writes) |-> writes[k].pos.x + writes[k].pos.y * MapW]
        written == {index[k] : k \in 1..Len(writes)}
        last_write(i) == CHOOSE k \in 1..Len(writes) :
                            /\ index[k] = i
                            /\ \A j \in (k + 1)..Len(writes) : index[j] # i
    IN  [i \in 0..(Len(writes) - 1) |->
            IF i \in written THEN writes[last_write(i)]
            ELSE NewObject(Vec(i % MapW, i \div MapH), FALSE, FALSE)]
place_panics(writes) ==
    \E k \in 1..Len(writes) :
        writes[k].pos.x + writes[k].pos.y * MapW \notin 0..(Len(writes) - 1)

\* FloorInfo::spawn_monsters: every room but the one of the spawn point gets
\* rats monsters on the tile the lowest draw of gen_range gives
spawn_monsters(rooms, spawn_pos, rats) ==
    LET spawn_tile == Vec((spawn_pos.x + TILE_SIZE - 1) \div TILE_SIZE,
                          (spawn_pos.y + TILE_SIZE - 1) \div TILE_SIZE)
        valid_rooms == SelectSeq(rooms, LAMBDA room : ~inside_room(room, spawn_tile))
        den(room) ==
            [k \in 1..rats |->
                NewRat(Vec(gen_range(room.top_left.x + 1, room.bottom_right.x - 1, 0)
                              * TILE_SIZE,
                           gen_range(room.top_left.y + 1, room.bottom_right.y - 1, 0)
                              * TILE_SIZE), 0)]
    IN  FlatMap(den, valid_rooms, 1)

\* what is left when the function panics, at the unwrap of a choose or at
\* an index of the objects vector, and before it has run
Panic(where) == [panicked |-> TRUE, at |-> where]
NoFloorInfo == [panicked |-> FALSE, at |-> "not called"]
\* rooms.retain(|room| !room.doors.is_empty())
retain_all(rooms) == rooms
retain(rooms) == SelectSeq(rooms, LAMBDA room : room.doors # {})
\* FloorInfo::new: others[k] is the room the hallway of room k leads to,
\* spawn_room and exit_room are the numbers the generator gives to choose
FloorInfo_new(rooms, others, spawn_room, exit_room, rats) ==
    With(HallwaysFrom(rooms, others, 1), LAMBDA all_hallways :
    With(retain([k \in 1..Len(rooms) |-> with_doors(rooms[k], all_hallways)]),
         LAMBDA kept :
    With(SelectSeq(all_hallways,
                   LAMBDA h : ~\E r \in 1..Len(kept) : inside_room(kept[r], h)),
         LAMBDA hallways :
    With(border_walls \o FlatMap(generate_wall_objects, kept, 1)
            \o dungeon_walls(kept, hallways), LAMBDA collidable_objects :
    With([k \in 1..Len(hallways) |-> NewObject(hallways[k], TRUE, FALSE)]
            \o FlatMap(generate_floor, kept, 1), LAMBDA background_objects :
    IF choose_panics(kept) THEN Panic("unwrap")
    ELSE IF place_panics(background_objects \o collidable_objects) THEN Panic("index")
    ELSE With(Vec(center(choose(kept, spawn_room)).x * TILE_SIZE,
                  center(choose(kept, spawn_room)).y * TILE_SIZE), LAMBDA spawn_pos :
         [panicked |-> FALSE,
          spawn |-> spawn_pos,
          objects |-> place_objects(background_objects \o collidable_objects),
          rooms |-> kept,
          exit |-> center(choose(kept, exit_room)),
          monsters |-> spawn_monsters(kept, spawn_pos, rats)]))))))

\* get_object_from_pos_list: Some(object) as <<object>>, None as <<>>
get_object_from_pos_list(pos, obj_list) ==
    LET index == pos.x + pos.y * MapW IN
    IF index \in DOMAIN obj_list THEN <<obj_list[index]>> ELSE <<>>

FloorInit ==
    /\ \E rooms \in RoomLists :
          call = [fn |-> "FloorInfo::new", drawn |-> rooms, others |-> <<>>,
                  returned |-> FALSE, floor_info |-> NoFloorInfo]
    /\ map = NewMap(NewFloorInfo(<<>>))
    /\ players = <<>>
    /\ attacks = <<>>
    /\ Outside

\* FloorInfo::new(floor_num)
GenerateFloor ==
    /\ call.fn = "FloorInfo::new"
    /\ ~call.returned
    /\ \E others \in [1..Len(call.drawn) -> 1..Len(call.drawn)],
          spawn_room \in RoomDraws, exit_room \in RoomDraws, rats \in 0..MaxRats :
          /\ call' = [call EXCEPT
                         !.returned = TRUE,
                         !.others = others,
                         !.floor_info = FloorInfo_new(call.drawn, others, spawn_room,
                                                      exit_room, rats)]
    /\ UNCHANGED <<frame, players, attacks, map, cell, rng, panicked, last, memo, rollbacks>>

FloorNext == GenerateFloor
FloorSpec == FloorInit /\ [][FloorNext]_vars

\* C18: every floor FloorInfo::new returns has an objects array of exactly
\* MapW x MapH entries, the entry at index x + y * MapW has tile position
\* (x, y) for every tile of the grid, and get_object_from_pos(pos) gives
\* the object whose position is pos, or None.
C18_Floor == call.fn = "FloorInfo::new" /\ call.returned /\ ~call.floor_info.panicked
C18_Length == Cardinality(DOMAIN call.floor_info.objects) = MapW * MapH
C18_Indexed ==
    \A x \in 0..(MapW - 1), y \in 0..(MapH - 1) :
        /\ x + y * MapW \in DOMAIN call.floor_info.objects
        /\ call.floor_info.objects[x + y * MapW].pos = Vec(x, y)
C18_Lookup ==
    \A x \in -1..MapW, y \in -1..(MapH + 1) :
        LET found == get_object_from_pos_list(Vec(x, y), call.floor_info.objects)
        IN  found = <<>> \/ found[1].pos = Vec(x, y)
C18_ObjectsArray == C18_Floor => C18_Length /\ C18_Indexed /\ C18_Lookup
\* a floor whose array is longer than the grid, where the tile one past the
\* right edge of row 0 is answered with the first object of row 1
C18_Witness ==
    /\ C18_Floor
    /\ Cardinality(DOMAIN call.floor_info.objects) > MapW * MapH
    /\ get_object_from_pos_list(Vec(MapW, 0), call.floor_info.objects)
          = <<call.floor_info.objects[MapW]>>
    /\ call.floor_info.objects[MapW].pos = Vec(0, 1)

\* =====================================================================
\* main.rs update_game on its own.  Time is counted in ticks, FrameTicks to
\* the frame interval 1 / FPS.  The session is what update_game reads of
\* it: the WaitRecommendation it raises, its state, whether it is ahead
\* and what advance_frame answers.  call holds the fields of GameInfo the
\* function uses, its place in the function and, counted from its entry,
\* the intervals subtracted, the advance_frame calls made and the calls
\* that returned requests.
\* =====================================================================
FrameTicks == 10
MaxUpdates == 3
\* the time between two calls, and the frames a WaitRecommendation names
Deltas == {0, 4, FrameTicks, FrameTicks + 1, 2 * FrameTicks + 5, 4 * FrameTicks}
SkipFrames == {0, 2}
SessionStates == {"Synchronizing", "Running"}

\* fps_delta: a tenth longer when the session is ahead of the other peer
fps_delta(frames_ahead) ==
    IF frames_ahead > 0 THEN (FrameTicks * 11) \div 10 ELSE FrameTicks
\* the test of the while loop
accumulator_over(accumulator, delta) == accumulator > delta
\* frames are only advanced when the session is synchronised
session_always_running(state) == TRUE
session_running(state) == state = "Running"

PacingInit ==
    /\ call = [fn |-> "update_game", pc |-> "idle", updates |-> 0,
               accumulator |-> 0, frames_to_skip |-> 0, fps_delta |-> FrameTicks,
               session |-> "Synchronizing",
               subtracted |-> 0, advanced |-> 0, stepped |-> 0]
    /\ map = NewMap(NewFloorInfo(<<>>))
    /\ players = <<>>
    /\ attacks = <<>>
    /\ Outside

\* update_game up to the loop: the events, the frames to skip, the time
\* since the last update
EnterUpdate ==
    /\ call.fn = "update_game"
    /\ call.pc = "idle"
    /\ call.updates < MaxUpdates
    /\ \E wait \in BOOLEAN, skip_frames \in SkipFrames, state \in SessionStates,
          frames_ahead \in {0, 1}, delta \in Deltas :
          LET frames_to_skip == IF wait THEN skip_frames ELSE call.frames_to_skip
          IN  call' = IF frames_to_skip > 0
                      THEN [call EXCEPT !.updates = @ + 1, !.session = state,
                                        !.frames_to_skip = frames_to_skip - 1,
                                        !.subtracted = 0, !.advanced = 0, !.stepped = 0]
                      ELSE [call EXCEPT !.updates = @ + 1, !.session = state,
                                        !.frames_to_skip = frames_to_skip,
                                        !.fps_delta = fps_delta(frames_ahead),
                                        !.accumulator = @ + delta,
                                        !.pc = "loop",
                                        !.subtracted = 0, !.advanced = 0, !.stepped = 0]
    /\ UNCHANGED <<frame, players, attacks, map, cell, rng, panicked, last, memo, rollbacks>>

\* one pass of the while loop; answer is what advance_frame returns
LoopPass ==
    /\ call.fn = "update_game"
    /\ call.pc = "loop"
    /\ accumulator_over(call.accumulator, call.fps_delta)
    /\ \E answer \in {"Ok", "PredictionThreshold", "Err"} :
          call' = [call EXCEPT
                      !.accumulator = Max(0, @ - call.fps_delta),
                      !.subtracted = @ + 1,
                      !.advanced = IF session_running(call.session) THEN @ + 1 ELSE @,
                      !.stepped = IF session_running(call.session) /\ answer = "Ok"
                                  THEN @ + 1 ELSE @]
    /\ UNCHANGED <<frame, players, attacks, map, cell, rng, panicked, last, memo, rollbacks>>

\* the loop test fails and update_game returns
LoopExit ==
    /\ call.fn = "update_game"
    /\ call.pc = "loop"
    /\ ~accumulator_over(call.accumulator, call.fps_delta)
    /\ call' = [call EXCEPT !.pc = "idle"]
    /\ UNCHANGED <<frame, players, attacks, map, cell, rng, panicked, last, memo, rollbacks>>

PacingNext == EnterUpdate \/ LoopPass \/ LoopExit
PacingSpec == PacingInit /\ [][PacingNext]_vars
\* the loop is straight-line code: once entered it is run to its end
PacingFairSpec == PacingSpec /\ WF_vars(LoopPass) /\ WF_vars(LoopExit)

\* C19: in update_game a pass of the loop is made while the accumulator
\* holds more than one frame interval; every pass subtracts exactly one
\* interval from the accumulator and makes exactly one advance_frame call
\* when the session is Running and none when it is not; the loop ends, and
\* at its end the advance_frame calls are as many as the intervals
\* subtracted when the session is Running, and none otherwise.
C19_InLoop == call.fn = "update_game" /\ call.pc = "loop"
C19_Pass == C19_InLoop /\ call'.pc = "loop" /\ call' # call
C19_Counts ==
    C19_InLoop =>
        /\ call.advanced = IF call.session = "Running" THEN call.subtracted ELSE 0
        /\ call.stepped <= call.advanced
        /\ call.accumulator >= 0
C19_OnePass ==
    C19_Pass =>
        /\ call.accumulator > call.fps_delta
        /\ call'.accumulator = call.accumulator - call.fps_delta
        /\ call'.subtracted = call.subtracted + 1
        /\ call'.advanced =
              call.advanced + IF call.session = "Running" THEN 1 ELSE 0
C20_Called == call.fn = "FloorInfo::new" /\ call.returned
C20_NoDoors ==
    \A k \in 1..Len(call.drawn) :
        with_doors(call.drawn[k], HallwaysFrom(call.drawn, call.others, 1)).doors = {}
C20_RoomAround(tile) ==
    \E k \in 1..Len(call.floor_info.rooms) :
        /\ call.floor_info.rooms[k].doors # {}
        /\ center(call.floor_info.rooms[k]) = tile
C20_NoEmptyFloor ==
    C20_Called =>
        /\ C20_NoDoors => call.floor_info = Panic("unwrap")
        /\ ~call.floor_info.panicked =>
              /\ call.floor_info.rooms # <<>>
              /\ C20_RoomAround(call.floor_info.exit)
              /\ C20_RoomAround(Vec(call.floor_info.spawn.x \div TILE_SIZE,
                                    call.floor_info.spawn.y \div TILE_SIZE))
\* two rooms were drawn, no hallway gave either a door, and the generation
\* panicked
C20_Witness ==
    /\ C20_Called
    /\ Len(call.drawn) = 2
    /\ C20_NoDoors
    /\ call.floor_info = Panic("unwrap")

\* =====================================================================
\* attacks/slash.rs Slash::update on its own: a Slash just created by the
\* Caster is updated until it is removed, with a pack of rats where
\* spawn_monsters put them, all on one spot.
\* =====================================================================
MaxPack == 5
PackSpots == {Vec(2600, 2400), Vec(3000, 2400), Vec(3400, 2500), Vec(2400, 3000),
              Vec(3000, 3000), Vec(1200, 1200)}
Pack(n, at) == [k \in 1..n |-> NewRat(at, 0)]

SlashInit ==
    /\ \E a \in {EAST, SOUTH, DIAGONAL} :
          /\ attacks = <<NewAttack("Slash", player_polygon(Caster), 1, a)>>
          /\ call = [fn |-> "update_attacks", created |-> attacks, updates |-> 0,
                     changes |-> 0]
    /\ \E n \in 1..MaxPack, at \in PackSpots :
          map = NewMap(NewFloorInfo(Pack(n, at)))
    /\ players = <<Caster, Wizard(Vec(1400, 1400))>>
    /\ Outside

SlashNext == UpdateAttacks
SlashSpec == SlashInit /\ [][SlashNext]_vars

\* the hits the rats of the pack have taken, counted from their health
RECURSIVE C21_HitsFrom(_, _)
C21_HitsFrom(monsters, k) ==
    IF k > Len(monsters) THEN 0
    ELSE (RAT_MAX_HEALTH - monsters[k].health) \div SLASH_DAMAGE
         + C21_HitsFrom(monsters, k + 1)
\* C21: a Slash deals damage at most 6 times over its lifetime, every
\* monster it hits in every update counted: its num_piercings never
\* exceeds 6, and the monsters have taken at most 6 hits together.
C21_PiercingCap ==
    call.fn = "update_attacks" =>
        /\ \A k \in DOMAIN attacks :
              attacks[k].kind = "Slash" => attacks[k].num_piercings <= SLASH_MAX_PIERCINGS
        /\ C21_HitsFrom(Monsters, 1) <= SLASH_MAX_PIERCINGS
\* a Slash still in the list that has counted more than 6 hits, on a pack
\* of five rats that were all hit
C21_Witness ==
    /\ call.fn = "update_attacks"
    /\ Len(attacks) = 1
    /\ attacks[1].kind = "Slash"
    /\ attacks[1].num_piercings > SLASH_MAX_PIERCINGS
    /\ Len(Monsters) = MaxPack
    /\ \A k \in DOMAIN Monsters : Monsters[k].health < RAT_MAX_HEALTH
    /\ C21_HitsFrom(Monsters, 1) = attacks[1].num_piercings

\* =====================================================================
\* attacks/magic_missle.rs MagicMissile::update on its own: a missile the
\* Caster just cast is updated until it is removed, with one monster in
\* its way or out of it.
\* =====================================================================
Targets ==
    {<<NewSlime(at)>> : at \in {Vec(3000, 2400), Vec(3400, 2500), Vec(3000, 3000),
                                Vec(1200, 1200)}}
    \cup {<<NewRat(at, 0)>> : at \in {Vec(3000, 2400), Vec(3000, 3000)}}
MissileInit ==
    /\ \E a \in {EAST, DIAGONAL} :
          /\ attacks = <<NewAttack("MagicMissile", player_polygon(Caster), 1, a)>>
          /\ call = [fn |-> "update_attacks", created |-> attacks, updates |-> 0,
                     changes |-> 0]
    /\ \E target \in Targets : map = NewMap(NewFloorInfo(target))
    /\ players = <<Caster, Wizard(Vec(1400, 1400))>>
    /\ Outside

MissileNext == UpdateAttacks
MissileSpec == MissileInit /\ [][MissileNext]_vars

C22_Unbounced ==
    /\ call.fn = "update_attacks"
    /\ Len(attacks) = 1
    /\ attacks[1].kind = "MagicMissile"
    /\ attacks[1].bounces = 0
\* the hits of 1 damage a monster has taken
C22_Hits(m) == (IF m.kind = "GreenSlime" THEN SLIME_MAX_HEALTH ELSE RAT_MAX_HEALTH) - m.health
\* C22: a MagicMissile with bounce count 0 that touches a monster damages
\* it once: while the missile is in the list the monster has taken at most
\* one hit, and an update of a missile whose monster was hit before leaves
\* the health of the monster as it was.
C22_DamageOnce ==
    /\ [](C22_Unbounced => \A k \in DOMAIN Monsters : C22_Hits(Monsters[k]) <= 1)
    /\ [][(C22_Unbounced /\ C22_Hits(Monsters[1]) > 0 /\ call'.updates = call.updates + 1)
             => Monsters'[1].health = Monsters[1].health]_vars
\* a missile that never bounced, still in the list after ten updates, with
\* a slime it has hit in each of the last five
C22_Witness ==
    /\ C22_Unbounced
    /\ Monsters[1].kind = "GreenSlime"
    /\ C22_Hits(Monsters[1]) = 5
    /\ call.updates >= 5
    /\ attacks[1].time >= 2 * C22_Hits(Monsters[1])
    /\ attacks[1].time < MISSILE_LIFETIME

\* =====================================================================
\* attacks/blinding_light.rs BlindingLight::update on its own: a light one
\* player cast, or the lights both players cast in one frame, are updated
\* until they go out, with a slime and a rat in the light or out of it.
\* =====================================================================
Lights ==
    {<<NewBlindingLight(Caster, 1, a)>> : a \in {EAST, SOUTH}}
    \cup {<<NewBlindingLight(Caster, 1, SOUTH), NewBlindingLight(Caster, 2, SOUTH)>>}
Lit ==
    {<<[NewSlime(at) EXCEPT !.health = health], rat>> :
        at \in {Vec(6200, 3000), Vec(6200, 2500), Vec(2400, 3400)},
        health \in {SLIME_MAX_HEALTH, 1},
        rat \in {HuntingRat(Vec(7000, 3000), 20), HuntingRat(Vec(3000, 3400), 20),
                 NewRat(Vec(1200, 1200), 0)}}
LightInit ==
    /\ \E lights \in Lights :
          /\ attacks = lights
          /\ call = [fn |-> "update_attacks", created |-> lights, updates |-> 0,
                     changes |-> 0]
    /\ \E monsters \in Lit : map = NewMap(NewFloorInfo(monsters))
    /\ players = <<Caster, Caster>>
    /\ Outside

LightNext == UpdateAttacks
LightSpec == LightInit /\ [][LightNext]_vars

C23_Step == call.fn = "update_attacks" /\ call'.updates = call.updates + 1
\* the lights of the list that stay lit in this update and touch monster k
C23_Lights(k) ==
    Cardinality({j \in DOMAIN attacks :
                    /\ attacks[j].time + 1 < BLINDING_LIGHT_LIFETIME
                    /\ k \in MonstersHit(Monsters, attack_polygon(attacks[j]))})
C23_Blinded(m) ==
    [m EXCEPT !.current_target = NoTarget, !.current_path = <<>>, !.path_i = 0,
              !.time_til_move = 50,
              !.enchantments = {e \in @ : e.kind # "Blinded"}
                               \cup {[kind |-> "Blinded", frames_left |-> 240]}]
\* C23: an update of BlindingLights leaves the health of every rat as it
\* was, and a rat a light touches loses its target and its path, waits 50
\* frames and is Blinded for 240; a slime gets no enchantment and loses 1
\* health, in u16 arithmetic, for every light that touches it; a monster no
\* light touches is left as it was in every field.
C23_Light ==
    [][C23_Step =>
          \A k \in DOMAIN Monsters :
              Monsters'[k] =
                  IF C23_Lights(k) = 0 THEN Monsters[k]
                  ELSE IF Monsters[k].kind = "SmallRat" THEN C23_Blinded(Monsters[k])
                  ELSE [Monsters[k] EXCEPT
                           !.health = (@ + 65536 - C23_Lights(k)) % 65536]]_vars
\* a light that is still lit, a slime that has lost health to it and a rat
\* it blinded without a change of health
C23_Witness ==
    /\ call.fn = "update_attacks"
    /\ call.updates > 0
    /\ attacks # <<>>
    /\ Monsters[1].kind = "GreenSlime"
    /\ Monsters[1].health = SLIME_MAX_HEALTH - call.updates
    /\ Monsters[1].enchantments = {}
    /\ Monsters[2].kind = "SmallRat"
    /\ Monsters[2].health = RAT_MAX_HEALTH
    /\ \E e \in Monsters[2].enchantments : e.kind = "Blinded"
\* the claim as stated: no update of a BlindingLight changes the health of
\* a monster
C23_NoDamage ==
    [][C23_Step => \A k \in DOMAIN Monsters : Monsters'[k].health = Monsters[k].health]_vars

\* =====================================================================
\* player.rs on its own: player_attack, update_cooldowns and damage_player
\* are called on one player, in any order.  call counts the calls of
\* update_cooldowns and remembers, for each slot, the kind of the last
\* attack made from it and the calls of update_cooldowns since.
\* =====================================================================
MaxAttacks == 3
NoAttackYet == [kind |-> "none", since |-> 0]
Attackers ==
    {[NewPlayer(class, pos) EXCEPT !.angle = a, !.primary_cooldown = cd, !.mp.points = mp] :
        class \in {"Warrior", "Wizard", "Rogue"},
        pos \in {spawn, Vec(3500, 2400)},
        a \in {EAST, WEST, SOUTH, DIAGONAL},
        cd \in {0, 5},
        mp \in {0, 3}}
AttackInit ==
    /\ \E player \in Attackers : players = <<player>>
    /\ attacks = <<>>
    /\ map = NewMap(NewFloorInfo(<<>>))
    /\ call = [fn |-> "player", frames |-> 0, primary |-> NoAttackYet,
               secondary |-> NoAttackYet]
    /\ Outside

\* player_attack(player, index, attacks, floor, is_primary)
PlayerAttack ==
    /\ call.fn = "player"
    /\ Len(attacks) < MaxAttacks
    /\ \E is_primary \in BOOLEAN :
          With(player_attack(players[1], 1, attacks, is_primary), LAMBDA r :
              /\ players' = [players EXCEPT ![1] = r.player]
              /\ attacks' = r.attacks
              /\ call' = IF Len(r.attacks) = Len(attacks) THEN call
                         ELSE IF is_primary
                         THEN [call EXCEPT !.primary =
                                  [kind |-> r.attacks[Len(r.attacks)].kind, since |-> 0]]
                         ELSE [call EXCEPT !.secondary =
                                  [kind |-> r.attacks[Len(r.attacks)].kind, since |-> 0]])
    /\ UNCHANGED <<frame, map, cell, rng, panicked, last, memo, rollbacks>>

AttackNext == PlayerAttack
AttackSpec == AttackInit /\ [][AttackNext]_vars

\* C24: when player_attack makes an attack, the side effects of the attack
\* are applied to the player that made it, once: the player is left where
\* side_effects puts the player the call found.
C24_Made == call.fn = "player" /\ Len(attacks') = Len(attacks) + 1
C24_SideEffectsOnce ==
    [][C24_Made =>
          players'[1].pos =
              side_effects(attacks'[Len(attacks')], players[1], current_floor(map).floor).pos]_vars
\* a Wizard at the spawn point stabbed east with nothing in the way and
\* stands where it stood
C24_Witness ==
    /\ call.fn = "player"
    /\ Len(attacks) = 1
    /\ attacks[1].kind = "Stab"
    /\ attacks[1].angle = EAST
    /\ players[1].pos = spawn
    /\ attacks[1].pos = player_polygon(players[1]).center
    /\ side_effects(attacks[1], players[1], current_floor(map).floor).pos
          = Vec(spawn.x + PLAYER_SIZE, spawn.y)

\* =====================================================================
\* The tiles of the paths find_path returns (PathSpec), and the edge of
\* the floors FloorInfo::new generates (FloorSpec).
\* =====================================================================
C25_Returned == call.fn = "find_path" /\ call.returned /\ call.result # <<>>
C25_Tile(k) == Vec(call.result[k].x \div TILE_SIZE, call.result[k].y \div TILE_SIZE)
C25_InMap(tile) == tile.x \in 0..(MapW - 1) /\ tile.y \in 0..(MapH - 1)
C25_Adjacent(a, b) == Abs(a.x - b.x) + Abs(a.y - b.y) = 1
C25_MayStandOn(tile) ==
    \/ ~is_collidable(current_floor(map).floor, get_object_from_pos(tile))
    \/ call.ignore_door_collision /\ Layout[get_object_from_pos(tile)].has_door

\* C25: every tile of a path find_path returns lies inside the map, each
\* tile is 4-adjacent to the one before it, and no tile after the start is
\* collidable, closed doors excepted when ignore_door_collision is set.
C25_PathTiles ==
    C25_Returned =>
        \A k \in DOMAIN call.result :
            /\ C25_InMap(C25_Tile(k))
            /\ k > 1 => /\ C25_Adjacent(C25_Tile(k - 1), C25_Tile(k))
                        /\ C25_MayStandOn(C25_Tile(k))

\* the way from the west room to the east room through the closed door,
\* which only a caller that ignores doors is given
C25_Witness ==
    /\ C25_Returned
    /\ call.start = Vec(1, 2)
    /\ call.goal = Vec(7, 2)
    /\ call.ignore_door_collision
    /\ Len(call.result) = 7
    /\ C25_Tile(4) = Vec(4, 2)
    /\ is_collidable(current_floor(map).floor, get_object_from_pos(C25_Tile(4)))

\* The bounds test of find_viable_neighbors lets column MAP_WIDTH_TILES and
\* row MAP_HEIGHT_TILES through; what keeps a path inside the map is what
\* the lookup finds there.  On every floor FloorInfo::new generates, no
\* tile of the last column or row that can be walked on has a neighbour
\* outside the map that the lookup calls free.
C25_Free(p, ignore_door_collision) ==
    LET found == get_object_from_pos_list(p, call.floor_info.objects)
    IN  found = <<>> \/ found[1].is_floor \/ (ignore_door_collision /\ found[1].door)
C25_EdgeSealed ==
    C18_Floor =>
        ~\E x \in 0..(MapW - 1), y \in 0..(MapH - 1), ignore_door_collision \in BOOLEAN :
            /\ C25_Free(Vec(x, y), FALSE)
            /\ \/ x = MapW - 1 /\ C25_Free(Vec(MapW, y), ignore_door_collision)
               \/ y = MapH - 1 /\ C25_Free(Vec(x, MapH), ignore_door_collision)

\* =====================================================================
\* map.rs inner_find_path on a floor whose hallways close a ring: the
\* hallway of a room runs along the row of the left centre and then along
\* the column of the right centre (451-461), so the hallways of three
\* rooms A -> B, B -> D and D -> A whose centres are three corners of a
\* rectangle run round it.  RingObjects is the part of such a floor's
\* objects that lies on the grid: the hallway tiles are floor, the tiles
\* they enclose and everything outside are dungeon walls.  The visibility
\* filter is off (only_visible = false).
\* =====================================================================
Ring == [left |-> 1, right |-> 5, top |-> 1, bottom |-> 3]
OnRing(pos) ==
    /\ pos.x \in Ring.left..Ring.right /\ pos.y \in Ring.top..Ring.bottom
    /\ pos.x \in {Ring.left, Ring.right} \/ pos.y \in {Ring.top, Ring.bottom}
RingObjects == [i \in TileIdx |-> NewObject(TilePos(i), OnRing(TilePos(i)), FALSE)]

\* find_viable_neighbors with visible_objects = None over a list of objects
viable_neighbors(collidable_objects, pos, ignore_door_collision) ==
    SelectSeq(<< Vec(pos.x - 1, pos.y), Vec(pos.x + 1, pos.y),
                 Vec(pos.x, pos.y - 1), Vec(pos.x, pos.y + 1) >>,
              LAMBDA p :
                 /\ ~(p.x < 0 \/ p.y < 0 \/ p.x > MapW \/ p.y > MapH)
                 /\ LET found == get_object_from_pos_list(p, collidable_objects)
                    IN  \/ found = <<>>
                        \/ found[1].is_floor
                        \/ ignore_door_collision /\ found[1].door)
\* astar over these neighbours, the heap popped as in AstarLoop
RECURSIVE astar(_, _, _, _)
astar(objects, goal, ignore_door_collision, st) ==
    IF st.to_see = {} THEN <<>>
    ELSE LET Before(a, b) ==
                 \/ a.est < b.est
                 \/ a.est = b.est /\ a.cost > b.cost
                 \/ a.est = b.est /\ a.cost = b.cost /\ a.node.y < b.node.y
                 \/ a.est = b.est /\ a.cost = b.cost /\ a.node.y = b.node.y
                      /\ a.node.x <= b.node.x
             top == CHOOSE a \in st.to_see : \A b \in st.to_see : Before(a, b)
             rest == [st EXCEPT !.to_see = st.to_see \ {top}]
         IN  IF top.node = goal THEN PathTo(st.parents, top.node)
             ELSE IF top.cost > st.parents[top.node].cost
             THEN astar(objects, goal, ignore_door_collision, rest)
             ELSE astar(objects, goal, ignore_door_collision,
                        Relax(viable_neighbors(objects, top.node, ignore_door_collision),
                              1, top.node, top.cost, goal, rest))
inner_find_path(objects, start, goal, ignore_door_collision) ==
    LET start_tile_pos == pos_to_tile(start)
        goal_tile_pos == pos_to_tile(goal)
        path == astar(objects, goal_tile_pos, ignore_door_collision,
                    [parents |-> [m \in {start_tile_pos} |->
                                     [parent |-> start_tile_pos, cost |-> 0]],
                     to_see |-> {[est |-> distance_squared(start_tile_pos, goal_tile_pos),
                                  cost |-> 0, node |-> start_tile_pos]}])
    IN  [k \in 1..Len(path) |-> Vec(path[k].x * TILE_SIZE, path[k].y * TILE_SIZE)]

RingInit ==
    /\ \E s \in TileIdx, g \in TileIdx, d \in BOOLEAN :
          /\ OnRing(TilePos(s))
          /\ OnRing(TilePos(g))
          /\ call = [fn |-> "inner_find_path", objects |-> RingObjects,
                     start |-> TilePos(s), goal |-> TilePos(g),
                     ignore_door_collision |-> d, returned |-> FALSE, result |-> <<>>]
    /\ map = NewMap(NewFloorInfo(<<>>))
    /\ players = <<>>
    /\ attacks = <<>>
    /\ Outside
\* inner_find_path(start, goal, floor, false, ignore_door_collision, None)
InnerFindPath ==
    /\ call.fn = "inner_find_path"
    /\ ~call.returned
    /\ call' = [call EXCEPT
                   !.returned = TRUE,
                   !.result = inner_find_path(call.objects, tile_polygon(call.start),
                                              tile_polygon(call.goal),
                                              call.ignore_door_collision)]
    /\ UNCHANGED <<frame, players, attacks, map, cell, rng, panicked, last, memo, rollbacks>>
RingNext == InnerFindPath
RingSpec == RingInit /\ [][RingNext]_vars

\* the number of steps of the shortest way from the tiles of frontier to
\* the goal over the neighbours find_viable_neighbors offers, -1 when
\* there is none
RECURSIVE C26_Steps(_, _, _, _, _, _)
C26_Steps(objects, goal, ignore_door_collision, frontier, seen, d) ==
    IF goal \in frontier THEN d
    ELSE IF frontier = {} THEN -1
    ELSE LET next == UNION {With(viable_neighbors(objects, t, ignore_door_collision),
                                 LAMBDA succ : {succ[k] : k \in DOMAIN succ}) :
                               t \in frontier} \ seen
         IN  C26_Steps(objects, goal, ignore_door_collision, next, seen \cup next, d + 1)
C26_Fewest ==
    C26_Steps(call.objects, call.goal, call.ignore_door_collision,
              {call.start}, {call.start}, 0)
C26_Returned == call.fn = "inner_find_path" /\ call.returned

\* C26: the squared distance to the goal never exceeds the number of steps
\* still to go, and the path find_path returns has the fewest steps of all
\* viable 4-connected paths from the start tile to the goal tile.
C26_ShortestPath ==
    (C26_Returned /\ C26_Fewest # -1) =>
        /\ distance_squared(call.start, call.goal) <= C26_Fewest
        /\ Len(call.result) = C26_Fewest + 1

\* from the top left corner of the ring to the tile left of its bottom
\* right corner: five steps down the left side and along the bottom, seven
\* steps returned, along the top and down the right side
C26_Witness ==
    /\ C26_Returned
    /\ call.start = Vec(Ring.left, Ring.top)
    /\ call.goal = Vec(Ring.right - 1, Ring.bottom)
    /\ C26_Fewest = 5
    /\ Len(call.result) = 8
    /\ call.result[2] = Vec((Ring.left + 1) * TILE_SIZE, Ring.top * TILE_SIZE)

\* =====================================================================
\* math.rs aabb_collision_dir on its own, over the rectangles of
\* CollisionSpec and offsets in whole pixels.
\* =====================================================================
DirOffsets == {Vec(0, 0), Vec(3, 0), Vec(0, -3), Vec(3, -7), Vec(-4, 4)}
DirInit ==
    /\ \E a \in FirstRects, b \in SecondRects, d \in DirOffsets :
          call = [fn |-> "aabb_collision_dir", aabb1 |-> a, aabb2 |-> b,
                  distance |-> Vec(d.x * PX, d.y * PX), returned |-> FALSE,
                  result |-> [x |-> FALSE, y |-> FALSE]]
    /\ map = NewMap(NewFloorInfo(<<>>))
    /\ players = <<>>
    /\ attacks = <<>>
    /\ Outside
\* aabb_collision_dir(&aabb1, &aabb2, distance)
CollideDir ==
    /\ call.fn = "aabb_collision_dir"
    /\ ~call.returned
    /\ call' = [call EXCEPT
                   !.returned = TRUE,
                   !.result = aabb_collision_dir(rect_polygon(call.aabb1),
                                                 rect_polygon(call.aabb2), call.distance)]
    /\ UNCHANGED <<frame, players, attacks, map, cell, rng, panicked, last, memo, rollbacks>>
DirNext == CollideDir
DirSpec == DirInit /\ [][DirNext]_vars

C27_Returned == call.fn = "aabb_collision_dir" /\ call.returned
\* the first shape moved by an offset collides with the second
C27_Collides(offset) ==
    aabb_collision(rect_polygon(call.aabb1), rect_polygon(call.aabb2), offset)

\* C27: x is true exactly when the first shape moved by (distance.x, 0)
\* collides with the second, y exactly when the first shape moved by
\* (0, distance.y) does; no other offset is applied.
C27_PerAxis ==
    C27_Returned =>
        /\ call.result.x = C27_Collides(Vec(call.distance.x, 0))
        /\ call.result.y = C27_Collides(Vec(0, call.distance.y))

\* a square that moves 3 px right and 7 px up next to a square 5 px to its
\* right: moved right alone it runs into the other one, but the test is
\* made 6 px right and 7 px up, above the other one, and x is false
C27_Witness ==
    /\ C27_Returned
    /\ call.aabb1 = Rect(0, 0, 4, 4, EAST)
    /\ call.aabb2 = Rect(5, 0, 4, 4, EAST)
    /\ call.distance = Vec(3 * PX, -7 * PX)
    /\ C27_Collides(Vec(call.distance.x, 0))
    /\ ~C27_Collides(Vec(2 * call.distance.x, call.distance.y))
    /\ ~call.result.x

\* =====================================================================
\* player.rs interact_with_door on its own, as handle_requests calls it for
\* the first player: both players and at most one monster stand on tiles
\* round the door of the floor; an entity stands on the door tile only
\* when the door is open.
\* =====================================================================
DoorTile == CHOOSE d \in DoorTiles : TRUE
\* an entity of the size of a player in the middle of a tile
OnTile(tile_x, tile_y) ==
    VSub(VAdd(Px(tile_x, tile_y), HALF_TILE_SIZE), Vec(PLAYER_SIZE \div 2, PLAYER_SIZE \div 2))
StandingSpots == {OnTile(3, 2), OnTile(3, 1), OnTile(4, 2), OnTile(5, 2), OnTile(2, 2)}
DoorInit ==
    /\ \E actor \in StandingSpots, other \in StandingSpots,
          floor \in {NewFloor, OpenFloor},
          monsters \in {<<>>} \cup {<<NewRat(at, 90)>> : at \in StandingSpots},
          interaction \in {"Opening", "Closing"} :
          /\ floor = NewFloor =>
                /\ OnTile(4, 2) \notin {actor, other}
                /\ \A k \in 1..Len(monsters) : monsters[k].pos # OnTile(4, 2)
          /\ players = <<Wizard(actor), Wizard(other)>>
          /\ map = NewMap([floor |-> floor, monsters |-> monsters])
          /\ call = [fn |-> "interact_with_door", door_interaction |-> interaction,
                     returned |-> FALSE]
    /\ attacks = <<>>
    /\ Outside
\* interact_with_door(player, door_interaction, current_floor_mut())
InteractWithDoor ==
    /\ call.fn = "interact_with_door"
    /\ ~call.returned
    /\ call' = [call EXCEPT !.returned = TRUE]
    /\ map' = [map EXCEPT !.rooms[map.current_floor_index + 1].floor =
                   interact_with_door(player_polygon(players[1]), call.door_interaction,
                                      current_floor(map).floor, current_floor(map).monsters)]
    /\ UNCHANGED <<frame, players, attacks, cell, rng, panicked, last, memo, rollbacks>>
DoorNext == InteractWithDoor
DoorSpec == DoorInit /\ [][DoorNext]_vars

\* the doors whose state the step changes
C28_Changed ==
    {d \in DoorTiles :
        (d \in current_floor(map).floor.open_doors)
            # (d \in current_floor(map').floor.open_doors)}
\* some player or monster stands on the tile
C28_Occupied(d) ==
    \/ \E i \in 1..Len(players) : pos_to_tile(player_polygon(players[i])) = Layout[d].pos
    \/ \E k \in 1..Len(current_floor(map).monsters) :
          pos_to_tile(monster_polygon(current_floor(map).monsters[k])) = Layout[d].pos

\* C28: interact_with_door changes no door on whose tile the acting
\* player, another player or a monster stands.
C28_NoOccupiedDoor ==
    [][call.fn = "interact_with_door" => \A d \in C28_Changed : ~C28_Occupied(d)]_vars

\* the first player, next to the open door, has closed it on the second
\* player, who stands in it
C28_Witness ==
    /\ call.fn = "interact_with_door"
    /\ call.returned
    /\ call.door_interaction = "Closing"
    /\ players[1].pos = OnTile(3, 2)
    /\ players[2].pos = OnTile(4, 2)
    /\ DoorTile \notin current_floor(map).floor.open_doors

\* =====================================================================
\* player.rs player_attack and update_cooldowns over the frames of one
\* player, alive or dead: in a frame handle_requests calls player_attack
\* for the slots the input uses and update_cooldowns afterwards (85-123).
\* call counts the calls of update_cooldowns and, for each slot, those
\* since the last attack made from it.
\* =====================================================================
MaxCooldownFrames == 52
CooldownInit ==
    /\ \E class \in {"Warrior", "Wizard", "Rogue"}, alive \in BOOLEAN :
          players = <<[NewPlayer(class, spawn) EXCEPT
                         !.hp.points = IF alive THEN @ ELSE 0]>>
    /\ attacks = <<>>
    /\ map = NewMap(NewFloorInfo(<<>>))
    /\ call = [fn |-> "player", frames |-> 0, primary |-> NoAttackYet,
               secondary |-> NoAttackYet]
    /\ Outside
\* update_cooldowns(&mut players)
UpdateCooldowns ==
    /\ call.fn = "player"
    /\ call.frames < MaxCooldownFrames
    /\ players' = update_cooldowns(players)
    /\ call' = [call EXCEPT !.frames = @ + 1,
                            !.primary.since = IF call.primary.kind = "none" THEN @ ELSE @ + 1,
                            !.secondary.since = IF call.secondary.kind = "none" THEN @ ELSE @ + 1]
    /\ UNCHANGED <<frame, attacks, map, cell, rng, panicked, last, memo, rollbacks>>
CooldownNext == PlayerAttack \/ UpdateCooldowns
CooldownSpec == CooldownInit /\ [][CooldownNext]_vars

\* the cooldowns in frames
C29_Frames(kind) ==
    IF kind = "Slash" THEN 30
    ELSE IF kind = "Stab" THEN 50
    ELSE IF kind = "MagicMissile" THEN 45
    ELSE IF kind = "BlindingLight" THEN 480
    ELSE IF kind = "ThrownKnife" THEN 10 ELSE 0
C29_Counter(player, slot) ==
    IF slot = "primary" THEN player.primary_cooldown ELSE player.secondary_cooldown
\* the step makes an attack from the slot
C29_MadeFrom(slot) ==
    /\ Len(attacks') = Len(attacks) + 1
    /\ C29_Counter(players'[1], slot) # C29_Counter(players[1], slot)
\* the step is a frame's update_cooldowns
C29_Frame == call'.frames = call.frames + 1
C29_Slot(slot) ==
    /\ C29_MadeFrom(slot) =>
          /\ C29_Counter(players'[1], slot) = C29_Frames(attacks'[Len(attacks')].kind)
          /\ call[slot].kind # "none" => call[slot].since >= C29_Frames(call[slot].kind)
    /\ C29_Frame =>
          C29_Counter(players'[1], slot) =
              IF players[1].hp.points # 0 /\ C29_Counter(players[1], slot) > 0
              THEN C29_Counter(players[1], slot) - 1
              ELSE C29_Counter(players[1], slot)
    /\ (C29_Frame /\ players[1].hp.points # 0 /\ call[slot].kind # "none") =>
          C29_Counter(players'[1], slot)
              = Max(0, C29_Frames(call[slot].kind) - call'[slot].since)

\* C29: an attack made from a slot sets the slot's counter to the cooldown
\* of the attack (Slash 30, Stab 50, MagicMissile 45, BlindingLight 480,
\* ThrownKnife 10); no other attack is made from the slot before that many
\* frames have passed; in every frame the counter of a living player goes
\* down by 1 and it stops at 0.
C29_Table ==
    \A kind \in {"Slash", "Stab", "MagicMissile", "BlindingLight", "ThrownKnife"} :
        cooldown([kind |-> kind]) = C29_Frames(kind)
C29_Cooldowns ==
    [][call.fn = "player" => C29_Table /\ C29_Slot("primary") /\ C29_Slot("secondary")]_vars

\* the Warrior slashes again in the frame the cooldown of the first Slash
\* has run out, 30 frames after it
C29_Witness ==
    /\ call.fn = "player"
    /\ players[1].class = "Warrior"
    /\ Len(attacks) = 2
    /\ attacks[2].kind = "Slash"
    /\ call.frames = 30
    /\ call.primary = [kind |-> "Slash", since |-> 0]
    /\ players[1].primary_cooldown = 30

\* =====================================================================
\* player.rs damage_player and update_cooldowns over the frames of one
\* player: a slime, a rat or a Slimeball on one side of the player calls
\* damage_player with its DAMAGE at any time, update_cooldowns is called
\* once per frame.  call holds the damage and the direction, remembers the
\* frame of the last call that hurt the player, and counts the calls of
\* damage_player.
\* =====================================================================
MaxDamageCalls == 3
MaxDamageFrames == 25
DamageSources == {SLIMEBALL_DAMAGE, SLIME_DAMAGE, RAT_DAMAGE}
DamageInit ==
    /\ \E class \in {"Warrior", "Wizard"}, damage \in DamageSources,
          damage_direction \in {EAST, WEST} :
          /\ players = <<NewPlayer(class, spawn)>>
          /\ call = [fn |-> "player", frames |-> 0, primary |-> NoAttackYet,
                     secondary |-> NoAttackYet, calls |-> 0, asked |-> damage,
                     direction |-> damage_direction, hit |-> [damage |-> 0, at |-> 0]]
    /\ attacks = <<>>
    /\ map = NewMap(NewFloorInfo(<<>>))
    /\ Outside
\* damage_player(player, DAMAGE, damage_direction, floor)
DamagePlayer ==
    /\ call.fn = "player"
    /\ "calls" \in DOMAIN call
    /\ call.calls < MaxDamageCalls
    /\ players' = [players EXCEPT ![1] =
                       damage_player(@, call.asked, call.direction, current_floor(map).floor)]
    /\ call' = [call EXCEPT
                   !.calls = @ + 1,
                   !.hit = IF players'[1] = players[1] THEN @
                           ELSE [damage |-> call.asked, at |-> call.frames]]
    /\ UNCHANGED <<frame, attacks, map, cell, rng, panicked, last, memo, rollbacks>>
DamageNext == DamagePlayer \/ (call.frames < MaxDamageFrames /\ UpdateCooldowns)
DamageSpec == DamageInit /\ [][DamageNext]_vars

\* fewer than 2 * d frames have passed since damage d was dealt
C30_Invincible ==
    call.hit.damage > 0 /\ call.frames - call.hit.at < 2 * call.hit.damage
\* what a call of damage_player may do
C30_Call ==
    call'.calls = call.calls + 1 =>
        /\ C30_Invincible => players'[1] = players[1]
        /\ call.hit.damage = 0 => players'[1] # players[1]
        /\ players'[1] # players[1] =>
              /\ players'[1].invincibility_frames = 2 * call'.asked
              /\ players'[1].hp.points = Max(0, players[1].hp.points - call'.asked)
\* what a frame does to the counter
C30_Countdown ==
    call'.frames = call.frames + 1 =>
        players'[1].invincibility_frames = Max(0, players[1].invincibility_frames - 1)

EffectTiles == {get_object_from_pos(Vec(2, 2)), get_object_from_pos(Vec(6, 2))}
EffectSpots == {OnTile(2, 2), OnTile(3, 2), OnTile(6, 2)}
Slimed(tile) == [tile |-> tile, effect_type |-> "Slimed", time_til_dissipate |-> 60]
EffectsInit ==
    /\ \E first \in EffectSpots, second \in EffectSpots, tiles \in SUBSET EffectTiles,
          monsters \in {<<>>} \cup {<<NewRat(at, 90)>> : at \in EffectSpots}
                          \cup {<<NewSlime(at)>> : at \in EffectSpots} :
          /\ players = <<Wizard(first), Wizard(second)>>
          /\ map = NewMap([floor |-> [NewFloor EXCEPT !.effects = {Slimed(t) : t \in tiles}],
                           monsters |-> monsters])
    /\ call = [fn |-> "set_effects", returned |-> FALSE]
    /\ attacks = <<>>
    /\ Outside
\* set_effects(&mut players, current_floor_mut())
SetEffects ==
    /\ call.fn = "set_effects"
    /\ ~call.returned
    /\ call' = [call EXCEPT !.returned = TRUE]
    /\ With(set_effects(players, current_floor(map)), LAMBDA e :
          /\ players' = e.players
          /\ map' = [map EXCEPT !.rooms[map.current_floor_index + 1] = e.floor_info])
    /\ UNCHANGED <<frame, attacks, cell, rng, panicked, last, memo, rollbacks>>
EffectsNext == SetEffects
EffectsSpec == EffectsInit /\ [][EffectsNext]_vars

\* some effect lies on the tile
C31_EffectOn(tile_pos) ==
    \E e \in current_floor(map).floor.effects : Layout[e.tile].pos = tile_pos

\* C31: set_effects enchants a player or a monster only if an effect lies
\* on the tile the player or the monster stands on.
C31_OnlyOnTile ==
    [][call.fn = "set_effects" =>
          /\ \A i \in 1..Len(players) :
                players'[i] # players[i]
                    => C31_EffectOn(pos_to_tile(player_polygon(players[i])))
          /\ \A k \in 1..Len(current_floor(map).monsters) :
                current_floor(map').monsters[k] # current_floor(map).monsters[k]
                    => C31_EffectOn(pos_to_tile(monster_polygon(current_floor(map).monsters[k])))]_vars

\* the only effect lies in the east room; the first player, in the middle
\* of the west room, is Sticky after the call
C31_Witness ==
    /\ call.fn = "set_effects"
    /\ call.returned
    /\ current_floor(map).floor.effects = {Slimed(get_object_from_pos(Vec(6, 2)))}
    /\ players[1].pos = OnTile(2, 2)
    /\ HasEnchantment(players[1].enchantments, "Sticky")

\* =====================================================================
\* Monster::movement of one Passive monster: a slime (idle or on its way to
\* a room) or a rat, two players each alive or dead, the door closed.
\* =====================================================================
AggroSpots == {OnTile(1, 1), OnTile(3, 3), OnTile(6, 2)}
Wandering(m) == [m EXCEPT !.current_target = TargetPos(ObjPolygon[get_object_from_pos(Vec(1, 3))].center)]
PassiveMonsters ==
    {NewSlime(at) : at \in AggroSpots} \cup {Wandering(NewSlime(at)) : at \in AggroSpots}
        \cup {NewRat(at, 90) : at \in AggroSpots}
AggroInit ==
    /\ \E first \in AggroSpots, second \in AggroSpots, dead \in SUBSET {1, 2},
          m \in PassiveMonsters, seed \in {RngStart, RngStart + 1} :
          /\ players = [i \in {1, 2} |->
                            IF i \in dead THEN Dead(Wizard(<<first, second>>[i]))
                            ELSE Wizard(<<first, second>>[i])]
          /\ map = NewMap([floor |-> NewFloor, monsters |-> <<m>>])
          /\ rng = seed
    /\ call = [fn |-> "movement", returned |-> FALSE]
    /\ attacks = <<>>
    /\ frame = 0
    /\ cell = <<>>
    /\ panicked = FALSE
    /\ last = Request("Init", <<>>, <<>>, NoFired)
    /\ memo = <<>>
    /\ rollbacks = 0
\* monster.movement(players, floor) of update_monsters
MonsterMovement ==
    /\ call.fn = "movement"
    /\ ~call.returned
    /\ call' = [call EXCEPT !.returned = TRUE]
    /\ With(movement(current_floor(map).monsters[1], players, current_floor(map).floor, rng),
            LAMBDA moved :
          /\ map' = [map EXCEPT !.rooms[map.current_floor_index + 1].monsters = <<moved.m>>]
          /\ rng' = moved.rng
          /\ panicked' = moved.panicked)
    /\ UNCHANGED <<frame, players, attacks, cell, last, memo, rollbacks>>
AggroNext == MonsterMovement
AggroSpec == AggroInit /\ [][AggroNext]_vars

\* the player's tile is in the set the monster sees; the rat's own test in
\* passive_mode is the aggro distance
C32_Detected(m, player, floor) ==
    IF m.kind = "GreenSlime"
    THEN \E v \in visible_objects(floor, monster_polygon(m), SLIME_VIEW) :
             Layout[v].pos = pos_to_tile(player_polygon(player))
    ELSE InAggroRange(player, m)
C32_Switched ==
    /\ call.fn = "movement"
    /\ current_floor(map).monsters[1].attack_mode = "Passive"
    /\ current_floor(map').monsters[1].attack_mode = "Attacking"

\* C32: a Passive monster turns Attacking in a movement call only if a
\* player with HP above 0 is detected by it in that call, and on the switch
\* it holds no wander target and no path any longer.
C32_AggroOnLiving ==
    [][C32_Switched =>
          /\ \E i \in DOMAIN players :
                /\ players[i].hp.points > 0
                /\ C32_Detected(current_floor(map).monsters[1], players[i], current_floor(map).floor)
          /\ current_floor(map').monsters[1].current_target.type # "Pos"
          /\ current_floor(map').monsters[1].current_path = <<>>]_vars

\* both players are dead and the slime is Attacking after the call
C32_Witness ==
    /\ call.fn = "movement"
    /\ call.returned
    /\ \A i \in DOMAIN players : players[i].hp.points = 0
    /\ current_floor(map).monsters[1].kind = "GreenSlime"
    /\ current_floor(map).monsters[1].attack_mode = "Attacking"

\* the part of C32 that holds: the switch takes a detected player, alive or
\* dead for the slime, alive for the rat
C32_AggroOnDetected ==
    [][C32_Switched =>
          \E i \in DOMAIN players :
              /\ C32_Detected(current_floor(map).monsters[1], players[i], current_floor(map).floor)
              /\ current_floor(map).monsters[1].kind = "SmallRat" => players[i].hp.points > 0]_vars
C32_RatClears ==
    [][C32_Switched /\ current_floor(map).monsters[1].kind = "SmallRat" =>
          /\ current_floor(map').monsters[1].current_target.type = "PlayerIndex"
          /\ current_floor(map').monsters[1].current_path = <<>>]_vars

\* =====================================================================
\* The frames of an Attacking monster: Monster::movement is called once a
\* frame (update_monsters) on a slime that has seen a player or on a rat
\* that targets the first player, the two players each alive or dead.
\* The players are not moved and not damaged here.
\* =====================================================================
MaxHuntFrames == 4
HuntSpots == {OnTile(1, 1), OnTile(3, 3)}
AttackingMonsters ==
    {AlertSlime(at) : at \in AggroSpots}
        \cup {HuntingRat(at, wait) : at \in AggroSpots, wait \in {0, 2}}
HuntInit ==
    /\ \E first \in HuntSpots, second \in HuntSpots, dead \in SUBSET {1, 2},
          m \in AttackingMonsters :
          /\ players = [i \in {1, 2} |->
                            IF i \in dead THEN Dead(Wizard(<<first, second>>[i]))
                            ELSE Wizard(<<first, second>>[i])]
          /\ map = NewMap([floor |-> NewFloor, monsters |-> <<m>>])
    /\ call = [fn |-> "hunt", frames |-> 0, odd |-> FALSE]
    /\ attacks = <<>>
    /\ Outside
\* one frame: monster.movement(players, floor) on the Attacking monster
Hunting ==
    /\ call.fn = "hunt"
    /\ ~panicked
    /\ current_floor(map).monsters[1].attack_mode = "Attacking"
\* the frame counted: every Hunt step is one, and no other step changes call
HuntFrame ==
    /\ Hunting
    /\ call' = [call EXCEPT !.frames = Min(@ + 1, MaxHuntFrames), !.odd = ~@]
Hunt ==
    /\ HuntFrame
    /\ With(movement(current_floor(map).monsters[1], players, current_floor(map).floor, rng),
            LAMBDA moved :
          /\ map' = [map EXCEPT !.rooms[map.current_floor_index + 1].monsters = <<moved.m>>]
          /\ rng' = moved.rng
          /\ panicked' = moved.panicked)
    /\ UNCHANGED <<frame, players, attacks, cell, last, memo, rollbacks>>
HuntNext == Hunt
HuntSpec == HuntInit /\ [][HuntNext]_vars
\* update_monsters runs in every AdvanceFrame: while the monster is
\* Attacking its frame is taken again and again.  The steps that change
\* call as HuntFrame does are the Hunt steps, and HuntFrame is enabled
\* exactly when Hunt is.
HuntFairSpec == HuntSpec /\ WF_call(HuntFrame)

C33_AllDead == \A i \in DOMAIN players : players[i].hp.points = 0
C33_Passive == current_floor(map).monsters[1].attack_mode = "Passive"

\* C33: once every player has HP 0, an Attacking monster is eventually
\* Passive again.
C33_ReturnsToPassive == (call.fn = "hunt" /\ C33_AllDead) ~> (C33_Passive \/ panicked)

\* both players are dead and the slime is still Attacking after
\* MaxHuntFrames frames
C33_Witness ==
    /\ call.fn = "hunt"
    /\ call.frames = MaxHuntFrames
    /\ C33_AllDead
    /\ ~panicked
    /\ current_floor(map).monsters[1].kind = "GreenSlime"
    /\ current_floor(map).monsters[1].attack_mode = "Attacking"

\* the rat does return: with every player dead it is Passive once its
\* wait has run out
C33_RatReturns ==
    (call.fn = "hunt" /\ C33_AllDead /\ current_floor(map).monsters[1].kind = "SmallRat")
        ~> C33_Passive
\* a slime is never Passive again
C33_SlimeStays ==
    [][call.fn = "hunt" /\ current_floor(map).monsters[1].kind = "GreenSlime"
          => current_floor(map').monsters[1].attack_mode = "Attacking"]_vars

\* =====================================================================
\* Experience: two wizards, each alive or dead, and monsters that die with
\* one or both of them in damaged_by.  update_monsters is run on the floor
\* holding the dead monster (it stands in the east room, away from the
\* players, on its way to a tile it has chosen before); between the kills
\* update_cooldowns runs for a few frames.
\* =====================================================================
MaxXpFrames == 3
Slain(m, indices) == [m EXCEPT !.health = 0, !.damaged_by = indices]
XpInit ==
    /\ \E dead \in SUBSET {1, 2} :
          players = [i \in {1, 2} |->
                        IF i \in dead THEN Dead(Wizard(<<OnTile(1, 1), OnTile(3, 3)>>[i]))
                        ELSE Wizard(<<OnTile(1, 1), OnTile(3, 3)>>[i])]
    /\ map = NewMap([floor |-> NewFloor, monsters |-> <<>>])
    /\ call = [fn |-> "xp", frames |-> 0]
    /\ attacks = <<>>
    /\ Outside
\* update_monsters with one monster at health 0: retain_mut pays xp() to
\* every player of damaged_by and drops the monster
PayXp ==
    /\ call.fn = "xp"
    /\ ~panicked
    /\ \E indices \in (SUBSET {1, 2}) \ {{}},
          m \in {Wandering(NewRat(OnTile(6, 2), 90))} :
          With(update_monsters(players,
                   [current_floor(map) EXCEPT !.monsters = <<Slain(m, indices)>>],
                   <<>>, rng, <<1>>),
               LAMBDA done :
                   /\ players' = done.players
                   /\ map' = [map EXCEPT !.rooms[map.current_floor_index + 1] = done.floor_info]
                   /\ rng' = done.rng
                   /\ panicked' = done.panicked)
    /\ UNCHANGED <<frame, attacks, call, cell, last, memo, rollbacks>>
\* update_cooldowns(&mut players) of a frame
XpCooldowns ==
    /\ call.fn = "xp"
    /\ ~panicked
    /\ call.frames < MaxXpFrames
    /\ call' = [call EXCEPT !.frames = @ + 1]
    /\ players' = update_cooldowns(players)
    /\ UNCHANGED <<frame, attacks, map, cell, rng, panicked, last, memo, rollbacks>>
XpNext == PayXp \/ XpCooldowns
XpSpec == XpInit /\ [][XpNext]_vars

\* C34: a player whose HP is 0 has HP 0 in the next state, whatever runs.
C34_DeadStaysDead ==
    [][call.fn = "xp" =>
          \A i \in DOMAIN players : players[i].hp.points = 0 => players'[i].hp.points = 0]_vars

\* the first player, dead from the start, has levelled up and has 1 HP of
\* its 21
C34_Witness ==
    /\ call.fn = "xp"
    /\ players[1].level = 1
    /\ players[1].hp.points = 1
    /\ players[1].hp.max_points = 21

\* the part of C34 that holds: update_cooldowns leaves a dead player dead
C34_CooldownsKeepDead ==
    [][call.fn = "xp" /\ call'.frames # call.frames =>
          \A i \in DOMAIN players : players[i].hp.points = 0 => players'[i] = players[i]]_vars
\* and so does add_xp below the threshold
C34_NoLevelNoHp ==
    [][call.fn = "xp" =>
          \A i \in DOMAIN players :
              players[i].hp.points = 0 /\ players'[i].level = players[i].level
                  => players'[i].hp.points = 0]_vars

\* C35: awarding XP never aborts, whatever the level of the player.
C35_NeverAborts == call.fn = "xp" => ~panicked

\* the frame has aborted in add_xp of a player of level 2
C35_Witness ==
    /\ call.fn = "xp"
    /\ panicked
    /\ \E i \in DOMAIN players : players[i].level = 2 /\ players[i].xp = 0

\* the part of C35 that holds: after every call xp is below the threshold
\* of the level, and no player goes beyond level 2
C35_BelowThreshold ==
    call.fn = "xp" =>
        \A i \in DOMAIN players :
            /\ players[i].level \in 0..2
            /\ players[i].level = 0 => players[i].xp < 14
            /\ players[i].level = 1 => players[i].xp < 16
            /\ players[i].level = 2 => players[i].xp = 0

\* =====================================================================
\* The input step of AdvanceFrame on its own: two wizards west of the
\* door, each alive or dead, the door closed or open.  Every peer builds
\* its input with movement_input(&players[0], ..), so both inputs are the
\* default one only when the first player is dead.
\* =====================================================================
KeyInputs ==
    { Idle,
      Input(EAST, TRUE, FALSE, FALSE, FALSE, FALSE),
      Input(WEST, TRUE, FALSE, FALSE, FALSE, FALSE),
      Input(EAST, FALSE, TRUE, FALSE, FALSE, FALSE),
      Input(EAST, FALSE, FALSE, FALSE, TRUE, FALSE),
      Input(EAST, FALSE, FALSE, FALSE, FALSE, TRUE) }
InputInit ==
    /\ \E dead \in SUBSET {1, 2}, floor \in {NewFloor, OpenFloor} :
          /\ players = [i \in {1, 2} |->
                            IF i \in dead THEN Dead(Wizard(<<OnTile(2, 2), OnTile(3, 2)>>[i]))
                            ELSE Wizard(<<OnTile(2, 2), OnTile(3, 2)>>[i])]
          /\ map = NewMap([floor |-> floor, monsters |-> <<>>])
    /\ call = [fn |-> "inputs", inputs |-> <<>>]
    /\ attacks = <<>>
    /\ Outside
\* inputs.iter().zip(players.iter_mut().enumerate()).for_each(..)
ApplyInputs ==
    /\ call.fn = "inputs"
    /\ call.inputs = <<>>
    /\ \E in1 \in movement_input(players[1], KeyInputs),
          in2 \in movement_input(players[1], KeyInputs) :
          /\ call' = [call EXCEPT !.inputs = <<in1, in2>>]
          /\ With(StepInputs(World, <<in1, in2>>), LAMBDA w :
                /\ players' = w.players
                /\ attacks' = w.attacks
                /\ map' = [map EXCEPT !.rooms[map.current_floor_index + 1] = w.floor_info])
    /\ UNCHANGED <<frame, cell, rng, panicked, last, memo, rollbacks>>
InputNext == ApplyInputs
InputSpec == InputInit /\ [][InputNext]_vars

C36_DoorKey(input) == input.opening_door \/ input.closing_door

\* C36: the input step does not move a player whose HP is 0, adds no
\* attack of that player, and changes no door on that player's input.
C36_Incapacitated ==
    [][call.fn = "inputs" =>
          \A i \in DOMAIN players :
              players[i].hp.points = 0 =>
                  /\ players'[i].pos = players[i].pos
                  /\ \A k \in (Len(attacks) + 1)..Len(attacks') : attacks'[k].player_index # i
                  /\ (\A j \in DOMAIN players \ {i} : ~C36_DoorKey(call'.inputs[j]))
                        => current_floor(map').floor.open_doors
                               = current_floor(map).floor.open_doors]_vars

\* the second player is dead, the first is alive, and the step has moved
\* the second player off the tile it died on
C36_Witness ==
    /\ call.fn = "inputs"
    /\ call.inputs # <<>>
    /\ players[1].hp.points > 0
    /\ players[2].hp.points = 0
    /\ players[2].pos # OnTile(3, 2)
C36_DeadAttacks ==
    /\ call.fn = "inputs"
    /\ players[2].hp.points = 0
    /\ \E k \in DOMAIN attacks : attacks[k].player_index = 2

\* the case the gate of movement_input covers: with the first player dead
\* both inputs are the default one and the step changes nothing
C36_FirstDead ==
    [][call.fn = "inputs" /\ players[1].hp.points = 0 =>
          /\ players' = players
          /\ attacks' = attacks
          /\ map' = map]_vars

\* =====================================================================
\* update_monsters on a floor whose one monster the attacks of the frame
\* have brought to health 0 (update_attacks runs before update_monsters):
\* a slime about to throw or a rat on the hunt, on the tile of the first
\* player or away from it.
\* =====================================================================
SlainSpots == {OnTile(2, 2), OnTile(1, 1), OnTile(3, 3)}
SlainMonsters ==
    {Slain(AlertSlime(at), {1}) : at \in SlainSpots}
        \cup {Slain(HuntingRat(at, 1), {1}) : at \in SlainSpots}
        \cup {Slain(Wandering(NewSlime(at)), {1}) : at \in SlainSpots}
SlainInit ==
    /\ \E first \in {OnTile(2, 2), OnTile(3, 2)}, second \in {OnTile(3, 3), OnTile(6, 2)},
          m \in SlainMonsters, seed \in {RngStart, RngStart + 1} :
          /\ players = <<Wizard(first), Wizard(second)>>
          /\ map = NewMap([floor |-> NewFloor, monsters |-> <<m>>])
          /\ rng = seed
    /\ call = [fn |-> "update_monsters", returned |-> FALSE]
    /\ attacks = <<>>
    /\ frame = 0
    /\ cell = <<>>
    /\ panicked = FALSE
    /\ last = Request("Init", <<>>, <<>>, NoFired)
    /\ memo = <<>>
    /\ rollbacks = 0
\* update_monsters(&mut players, current_floor_mut(), &mut attacks)
UpdateMonsters ==
    /\ call.fn = "update_monsters"
    /\ ~call.returned
    /\ call' = [call EXCEPT !.returned = TRUE]
    /\ With(update_monsters(players, current_floor(map), attacks, rng, <<1>>), LAMBDA done :
          /\ players' = done.players
          /\ attacks' = done.attacks
          /\ map' = [map EXCEPT !.rooms[map.current_floor_index + 1] = done.floor_info]
          /\ rng' = done.rng
          /\ panicked' = done.panicked)
    /\ UNCHANGED <<frame, cell, last, memo, rollbacks>>
SlainNext == UpdateMonsters
SlainSpec == SlainInit /\ [][SlainNext]_vars

\* the movement phase of update_monsters leaves the monster where it is
C37_Still ==
    With(current_floor(map), LAMBDA floor_info :
        MoveInOrder(floor_info.monsters, <<1>>, 1, players, floor_info.floor, rng).monsters[1].pos
            = floor_info.monsters[1].pos)

\* C37: a monster with health 0 does not move in update_monsters, adds no
\* attack and takes no HP from a player.
C37_NoEffect ==
    [][call.fn = "update_monsters" /\ ~call.returned =>
          /\ C37_Still
          /\ attacks' = attacks
          /\ \A i \in DOMAIN players :
                /\ players'[i].hp = players[i].hp
                /\ players'[i].pos = players[i].pos]_vars

\* the dead slime has been removed, and the first player has lost
\* SLIME_DAMAGE of its 20 HP to it
C37_Witness ==
    /\ call.fn = "update_monsters"
    /\ call.returned
    /\ current_floor(map).monsters = <<>>
    /\ players[1].hp.points = 20 - SLIME_DAMAGE
    /\ players[1].xp = SLIME_XP
\* the dead slime has thrown a Slimeball
C37_DeadThrows ==
    /\ call.fn = "update_monsters"
    /\ call.returned
    /\ current_floor(map).monsters = <<>>
    /\ \E k \in DOMAIN attacks : attacks[k].kind = "Slimeball"

\* the part of C37 that holds: the monster is removed and its XP is paid
C37_Removed ==
    [][call.fn = "update_monsters" /\ ~call.returned =>
          /\ current_floor(map').monsters = <<>>
          /\ players'[1].xp = 2
          /\ players'[2].xp = 0]_vars

\* =====================================================================
\* Fog of war.  has_been_seen and is_currently_visible are fields of the
\* Objects of the floor, which is part of the GameState: here the floor
\* carries them as the sets of the objects whose flag is set.  The
\* requests of the session are the actions of Spec; render_game runs
\* between them.  call.revealed collects every object a render pass has
\* marked as seen.
\* =====================================================================
FOG_VIEW == 12
WithFog(floor) ==
    [open_doors |-> floor.open_doors, triggered |-> floor.triggered, effects |-> floor.effects,
     has_been_seen |-> {}, is_currently_visible |-> {}]
\* Floor::set_visible_objects(aabb, None, objects)
set_visible_objects(floor, poly) ==
    With(visible_objects(floor, poly, FOG_VIEW), LAMBDA visible :
        [floor EXCEPT !.has_been_seen = @ \cup visible,
                      !.is_currently_visible = @ \cup visible])
RECURSIVE SetVisibleFrom(_, _, _)
SetVisibleFrom(floor, ps, i) ==
    IF i > Len(ps) THEN floor
    ELSE SetVisibleFrom(set_visible_objects(floor, player_polygon(ps[i])), ps, i + 1)
\* render_game: clear_currently_visible on every object, then
\* set_visible_objects for every player
render_game(floor, ps) ==
    SetVisibleFrom([floor EXCEPT !.is_currently_visible = {}], ps, 1)
FogInit ==
    /\ \E first \in {OnTile(3, 2)}, second \in {OnTile(1, 1), OnTile(6, 2)},
          floor \in {OpenFloor} :
          /\ players = <<Wizard(first), Wizard(second)>>
          /\ map = NewMap([floor |-> WithFog(floor), monsters |-> <<>>])
    /\ call = [fn |-> "render", revealed |-> {}]
    /\ attacks = <<>>
    /\ Outside
RenderGame ==
    /\ call.fn = "render"
    /\ ~panicked
    /\ With(render_game(current_floor(map).floor, players), LAMBDA drawn :
          /\ map' = [map EXCEPT !.rooms[map.current_floor_index + 1].floor = drawn]
          /\ call' = [call EXCEPT !.revealed = @ \cup drawn.has_been_seen])
    /\ UNCHANGED <<frame, players, attacks, cell, rng, panicked, last, memo, rollbacks>>
FogNext == SaveGameState \/ LoadGameState \/ AdvanceFrame \/ RenderGame
FogSpec == FogInit /\ [][FogNext]_vars

\* C38: an object once marked as seen stays marked, and every object that
\* is currently visible is marked as seen.
C38_Monotone ==
    call.fn = "render" =>
        /\ call.revealed \subseteq current_floor(map).floor.has_been_seen
        /\ current_floor(map).floor.is_currently_visible
               \subseteq current_floor(map).floor.has_been_seen

\* a load has taken the game back to a state saved before the first
\* render pass: the objects the pass had revealed are unseen again
C38_Witness ==
    /\ call.fn = "render"
    /\ call.revealed # {}
    /\ last.kind = "Load"
    /\ current_floor(map).floor.has_been_seen = {}

\* the parts of C38 that hold: what is visible has been seen, and every
\* step but a load keeps what has been seen
C38_VisibleSeen ==
    call.fn = "render" =>
        current_floor(map).floor.is_currently_visible
            \subseteq current_floor(map).floor.has_been_seen
C38_KeptWithoutLoad ==
    [][call.fn = "render" /\ rollbacks' = rollbacks =>
          current_floor(map).floor.has_been_seen
              \subseteq current_floor(map').floor.has_been_seen]_vars

\* =====================================================================
\* Map::descend called again and again on a new Map, with two players
\* anywhere in the west room.  (The one call of descend in main.rs is
\* commented out; the function is public.)
\* =====================================================================
DescendSpots == {OnTile(x, y) : x \in 1..3, y \in 1..3}
\* self.rooms[self.current_floor_index] of current_floor_mut is out of range
descend_panics(m) == m.current_floor_index + 1 >= Len(m.rooms)
DescendInit ==
    /\ \E first \in DescendSpots, second \in DescendSpots, class \in {"Wizard", "Warrior"} :
          players = <<NewPlayer(class, first), Wizard(second)>>
    /\ map = NewMap([floor |-> NewFloor, monsters |-> <<>>])
    /\ call = [fn |-> "descend"]
    /\ attacks = <<>>
    /\ Outside
\* map.descend(&mut players): the index is written before the floor is
\* looked up
Descend ==
    /\ call.fn = "descend"
    /\ ~panicked
    /\ IF descend_panics(map)
       THEN /\ map' = [map EXCEPT !.current_floor_index = @ + 1]
            /\ panicked' = TRUE
            /\ UNCHANGED players
       ELSE /\ map' = descend(map, players).map
            /\ players' = descend(map, players).players
            /\ UNCHANGED panicked
    /\ UNCHANGED <<frame, attacks, call, cell, rng, last, memo, rollbacks>>
DescendNext == Descend
DescendSpec == DescendInit /\ [][DescendNext]_vars

\* C40: current_floor_index is an index of the list of floors.
C40_ValidIndex ==
    call.fn = "descend" =>
        /\ 0 <= map.current_floor_index
        /\ map.current_floor_index < NUM_FLOORS
        /\ ~panicked

\* the fifth call has left the index at the number of floors and has
\* panicked in current_floor_mut
C40_Witness ==
    /\ call.fn = "descend"
    /\ map.current_floor_index = NUM_FLOORS
    /\ Len(map.rooms) = NUM_FLOORS
    /\ panicked

\* the part of C40 that holds: up to the fourth call the index is valid
\* and the players stand on the spawn of the new floor
C40_FirstFour ==
    call.fn = "descend" /\ ~panicked =>
        /\ map.current_floor_index \in 0..(NUM_FLOORS - 1)
        /\ map.current_floor_index > 0 => \A i \in DOMAIN players : players[i].pos = spawn

\* =====================================================================
\* Reachability on the floors of FloorSpec
\* =====================================================================
\* a tile one can stand on: a floor or corridor tile, or a door
C39_Walkable(objects, p) ==
    /\ p.x \in 0..(MapW - 1)
    /\ p.y \in 0..(MapH - 1)
    /\ With(get_object_from_pos_list(p, objects), LAMBDA found :
          found # <<>> /\ (found[1].is_floor \/ found[1].door))
C39_Around(p) == {Vec(p.x - 1, p.y), Vec(p.x + 1, p.y), Vec(p.x, p.y - 1), Vec(p.x, p.y + 1)}
\* the tiles a 4-connected walk from the tiles of seen reaches
RECURSIVE C39_Walk(_, _)
C39_Walk(objects, seen) ==
    With({q \in UNION {C39_Around(p) : p \in seen} : q \notin seen /\ C39_Walkable(objects, q)},
         LAMBDA more : IF more = {} THEN seen ELSE C39_Walk(objects, seen \cup more))
C39_SpawnTile == Vec(call.floor_info.spawn.x \div TILE_SIZE, call.floor_info.spawn.y \div TILE_SIZE)

C39_EndsWalkable ==
    C18_Floor =>
        /\ C39_Walkable(call.floor_info.objects, C39_SpawnTile)
        /\ C39_Walkable(call.floor_info.objects, call.floor_info.exit)
C39_Joined ==
    /\ C18_Floor
    /\ Len(call.floor_info.rooms) = 2
    /\ call.floor_info.exit # C39_SpawnTile
    /\ call.floor_info.exit \in C39_Walk(call.floor_info.objects, {C39_SpawnTile})
====
